---- MODULE Spec2Model ----
(***************************************************************************)
(* Hierarchical graph layout pipeline of beautiful-mermaid (layout.ts):    *)
(* GraphModel -> HierarchyTranslator (mermaidToElk) -> LayoutSolver ->     *)
(* ResultExtractor / EdgeAssembler -> LayerAligner -> EdgeBundler ->       *)
(* final bounds.  The solver is a black box: its output is a               *)
(* nondeterministic choice over bounded geometry.                          *)
(*                                                                         *)
(* Coordinates are integers in units of 1/20 pixel (see Px), so that the   *)
(* halvings and the 0.5 / 0.6 factors of the code are exact.               *)
(***************************************************************************)
EXTENDS Integers, Sequences, FiniteSets, TLC

VARIABLES
  pc,      \* the step of the layout call that comes next
  graph,   \* the GraphModel handed to the call
  opts,    \* the layout options of the call (DEFAULTS overlaid by the caller's)
  elk,     \* the solver tree: built by mermaidToElk, then laid out in place
  posNodes,   \* PositionedGraph.nodes
  posEdges,   \* PositionedGraph.edges
  posGroups,  \* PositionedGraph.groups
  pre,     \* the nodes and edges as they were before the last pass
  info,    \* what the last pass decided (layers and deltas, bundles)
  canvas,  \* PositionedGraph.width and .height
  runtime, \* the other implementation behind the interchange contract
  wire,    \* the caller's graph in contract form (or the error of making it)
  answer,  \* what the other implementation answered, then what was resolved
  returned, \* what the call returned or threw
  globals  \* globalThis.setTimeout and .self, and the solver singleton

vars == <<pc, graph, opts, elk, posNodes, posEdges, posGroups, pre, info, canvas,
          runtime, wire, answer, returned, globals>>

\* JavaScript's undefined / a missing Map entry.
Undefined == "undefined"

Range(s) == {s[i] : i \in 1..Len(s)}

\* Array.prototype.filter, keeping order.
RECURSIVE SelectSeqIdx(_, _, _)
SelectSeqIdx(s, Keep(_), i) ==
  IF i > Len(s) THEN <<>>
  ELSE (IF Keep(i) THEN <<s[i]>> ELSE <<>>) \o SelectSeqIdx(s, Keep, i + 1)

\* Concatenation of a sequence of sequences (push(...xs) in a loop).
RECURSIVE Flatten(_)
Flatten(ss) == IF ss = <<>> THEN <<>> ELSE Head(ss) \o Flatten(Tail(ss))

(***************************************************************************)
(* Bounds of the model.                                                    *)
(***************************************************************************)
MaxGroups == 2
MaxEdges == 2

(***************************************************************************)
(* GraphModel (MermaidGraph): [direction, nodes (the keys of the node map *)
(* in insertion order), edges (Seq of [source, target, label, style]),     *)
(* subgraphs (Seq of subgraph)].  A subgraph is                            *)
(*   [id, nodeIds (Seq), children (Seq of subgraph), direction].           *)
(***************************************************************************)

\* Map.get(key) on a map modelled as a function; Undefined when absent.
MapGet(m, k) == IF k \in DOMAIN m THEN m[k] ELSE Undefined

EmptyMap == [x \in {} |-> Undefined]

\* Recursively collect all node IDs that belong to any subgraph.
RECURSIVE CollectSubgraphNodeIds(_)
CollectSubgraphNodeIds(sg) ==
  Range(sg.nodeIds) \cup
    UNION {CollectSubgraphNodeIds(sg.children[k]) : k \in 1..Len(sg.children)}

\* Recursively collect all subgraph IDs.
RECURSIVE CollectAllSubgraphIds(_)
CollectAllSubgraphIds(sg) ==
  {sg.id} \cup
    UNION {CollectAllSubgraphIds(sg.children[k]) : k \in 1..Len(sg.children)}

\* traverse() of buildNodeToSubgraphMap over a list of subgraphs: map.set
\* overwrites, children are visited after the subgraph's own nodes.
RECURSIVE TraverseSubgraphs(_, _)
TraverseSubgraphs(sgs, map) ==
  IF sgs = <<>> THEN map
  ELSE LET sg == Head(sgs)
           own == [n \in Range(sg.nodeIds) |-> sg.id] @@ map
       IN TraverseSubgraphs(Tail(sgs), TraverseSubgraphs(sg.children, own))

BuildNodeToSubgraphMap(subgraphs) == TraverseSubgraphs(subgraphs, EmptyMap)

\* JavaScript truthiness of a Map.get result holding a subgraph id.
Truthy(v) == v # Undefined /\ v # ""

(***************************************************************************)
(* HierarchyTranslator: mermaidToElk / subgraphToElk.                      *)
(* Edge indices are 0-based as in the code; graph.edges[i+1] is edge i.    *)
(***************************************************************************)

EdgeId(index) == "e" \o ToString(index)
InternalEdgeId(index) == "e" \o ToString(index) \o "_internal"
OutPortId(sgId, index) == sgId \o "_out_" \o ToString(index)
InPortId(sgId, index) == sgId \o "_in_" \o ToString(index)

\* Classification of edge i: "internal", "root" or "cross".
EdgeClass(g, i) ==
  LET m == BuildNodeToSubgraphMap(g.subgraphs)
      s == MapGet(m, g.edges[i + 1].source)
      t == MapGet(m, g.edges[i + 1].target)
  IN IF Truthy(s) /\ s = t THEN "internal"
     ELSE IF ~Truthy(s) /\ ~Truthy(t) THEN "root"
     ELSE "cross"

SourceSubgraph(g, i) == MapGet(BuildNodeToSubgraphMap(g.subgraphs), g.edges[i + 1].source)
TargetSubgraph(g, i) == MapGet(BuildNodeToSubgraphMap(g.subgraphs), g.edges[i + 1].target)

EdgeIndices(g) == 0..(Len(g.edges) - 1)
IndexSeq(g) == [k \in 1..Len(g.edges) |-> k - 1]

\* graph.subgraphs.some(sg => sg.direction !== undefined)
HasDirectionOverride(g) ==
  \E k \in 1..Len(g.subgraphs) : g.subgraphs[k].direction # Undefined

HierarchyHandling(g) ==
  IF HasDirectionOverride(g) THEN "SEPARATE" ELSE "INCLUDE_CHILDREN"

\* Mutant of SubgraphPorts: the incoming port is created only when the source
\* is not grouped ("else if" in place of the second "if").
SubgraphPortsElseIf(g, sgId) ==
  IF ~HasDirectionOverride(g) THEN <<>>
  ELSE Flatten([k \in 1..Len(g.edges) |->
         LET i == k - 1
             e == g.edges[k]
         IN IF EdgeClass(g, i) # "cross" THEN <<>>
            ELSE IF Truthy(SourceSubgraph(g, i))
                 THEN (IF SourceSubgraph(g, i) = sgId
                       THEN <<[portId |-> OutPortId(sgId, i), edgeIndex |-> i,
                               direction |-> "outgoing", internalNodeId |-> e.source]>>
                       ELSE <<>>)
                 ELSE (IF Truthy(TargetSubgraph(g, i)) /\ TargetSubgraph(g, i) = sgId
                       THEN <<[portId |-> InPortId(sgId, i), edgeIndex |-> i,
                               direction |-> "incoming", internalNodeId |-> e.target]>>
                       ELSE <<>>)])

\* subgraphPorts.get(sgId): the port entries of one subgraph, in the order
\* the cross-hierarchy edges are processed (outgoing before incoming).
SubgraphPorts(g, sgId) ==
  IF ~HasDirectionOverride(g) THEN <<>>
  ELSE Flatten([k \in 1..Len(g.edges) |->
         LET i == k - 1
             e == g.edges[k]
         IN IF EdgeClass(g, i) # "cross" THEN <<>>
            ELSE (IF Truthy(SourceSubgraph(g, i)) /\ SourceSubgraph(g, i) = sgId
                  THEN <<[portId |-> OutPortId(sgId, i), edgeIndex |-> i,
                          direction |-> "outgoing", internalNodeId |-> e.source]>>
                  ELSE <<>>)
                 \o
                 (IF Truthy(TargetSubgraph(g, i)) /\ TargetSubgraph(g, i) = sgId
                  THEN <<[portId |-> InPortId(sgId, i), edgeIndex |-> i,
                          direction |-> "incoming", internalNodeId |-> e.target]>>
                  ELSE <<>>)])

ElkLeaf(id) ==
  [id |-> id, children |-> <<>>, edges |-> <<>>, ports |-> <<>>,
   direction |-> Undefined, isLeaf |-> TRUE]

PlainElkEdge(g, i) ==
  [id |-> EdgeId(i), sources |-> <<g.edges[i + 1].source>>,
   targets |-> <<g.edges[i + 1].target>>]

\* The solver edge of one port (port -> node or node -> port).
PortElkEdge(port) ==
  IF port.direction = "incoming"
  THEN [id |-> InternalEdgeId(port.edgeIndex),
        sources |-> <<port.portId>>, targets |-> <<port.internalNodeId>>]
  ELSE [id |-> InternalEdgeId(port.edgeIndex),
        sources |-> <<port.internalNodeId>>, targets |-> <<port.portId>>]

RECURSIVE SubgraphToElk(_, _)
SubgraphToElk(sg, g) ==
  LET ports == SubgraphPorts(g, sg.id)
      direct == SelectSeqIdx(sg.nodeIds, LAMBDA k : sg.nodeIds[k] \in Range(g.nodes), 1)
      internal == SelectSeqIdx(IndexSeq(g),
                    LAMBDA k : EdgeClass(g, k - 1) = "internal"
                               /\ SourceSubgraph(g, k - 1) = sg.id, 1)
  IN [id |-> sg.id,
      children |-> [k \in 1..Len(direct) |-> ElkLeaf(direct[k])]
                   \o [k \in 1..Len(sg.children) |-> SubgraphToElk(sg.children[k], g)],
      edges |-> [k \in 1..Len(internal) |-> PlainElkEdge(g, internal[k])]
                \o [k \in 1..Len(ports) |-> PortElkEdge(ports[k])],
      ports |-> [k \in 1..Len(ports) |-> ports[k].portId],
      direction |-> sg.direction,
      isLeaf |-> FALSE]

MermaidToElk(g) ==
  LET inSubgraph == UNION {CollectSubgraphNodeIds(g.subgraphs[k]) : k \in 1..Len(g.subgraphs)}
      sgIds == UNION {CollectAllSubgraphIds(g.subgraphs[k]) : k \in 1..Len(g.subgraphs)}
      top == SelectSeqIdx(g.nodes,
               LAMBDA k : g.nodes[k] \notin inSubgraph /\ g.nodes[k] \notin sgIds, 1)
      rootIdx == SelectSeqIdx(IndexSeq(g), LAMBDA k : EdgeClass(g, k - 1) = "root", 1)
      crossIdx == SelectSeqIdx(IndexSeq(g), LAMBDA k : EdgeClass(g, k - 1) = "cross", 1)
      sep == HasDirectionOverride(g)
      CrossElkEdge(i) ==
        [id |-> EdgeId(i),
         sources |-> IF sep /\ Truthy(SourceSubgraph(g, i))
                     THEN <<OutPortId(SourceSubgraph(g, i), i)>>
                     ELSE <<g.edges[i + 1].source>>,
         targets |-> IF sep /\ Truthy(TargetSubgraph(g, i))
                     THEN <<InPortId(TargetSubgraph(g, i), i)>>
                     ELSE <<g.edges[i + 1].target>>]
  IN [id |-> "root",
      hierarchyHandling |-> HierarchyHandling(g),
      children |-> [k \in 1..Len(top) |-> ElkLeaf(top[k])]
                   \o [k \in 1..Len(g.subgraphs) |-> SubgraphToElk(g.subgraphs[k], g)],
      edges |-> [k \in 1..Len(rootIdx) |-> PlainElkEdge(g, rootIdx[k])]
                \o [k \in 1..Len(crossIdx) |-> CrossElkEdge(crossIdx[k])],
      ports |-> <<>>,
      direction |-> g.direction,
      isLeaf |-> FALSE]

(***************************************************************************)
(* Geometry.  One pixel is 20 units: the code halves coordinates in layer  *)
(* alignment and again in bundling, and compares with 0.5 and 0.6 * 48.    *)
(***************************************************************************)
Px(n) == 20 * n
Pt(x, y) == [x |-> x, y |-> y]
Abs(v) == IF v < 0 THEN 0 - v ELSE v

RECURSIVE MinOfSeq(_)
MinOfSeq(s) ==
  IF Len(s) = 1 THEN s[1]
  ELSE LET m == MinOfSeq(Tail(s)) IN IF s[1] < m THEN s[1] ELSE m

RECURSIVE MaxOfSeq(_)
MaxOfSeq(s) ==
  IF Len(s) = 1 THEN s[1]
  ELSE LET m == MaxOfSeq(Tail(s)) IN IF s[1] > m THEN s[1] ELSE m

(***************************************************************************)
(* String helpers of the extraction (String.prototype.endsWith, includes,  *)
(* parseInt with radix 10).                                                *)
(***************************************************************************)
EndsWith(str, suffix) ==
  Len(str) >= Len(suffix)
  /\ SubSeq(str, Len(str) - Len(suffix) + 1, Len(str)) = suffix

Includes(str, sub) ==
  \E i \in 1..(Len(str) - Len(sub) + 1) : SubSeq(str, i, i + Len(sub) - 1) = sub

Digits == <<"0", "1", "2", "3", "4", "5", "6", "7", "8", "9">>
IsDigit(c) == \E d \in 1..10 : Digits[d] = c
DigitValue(c) == (CHOOSE d \in 1..10 : Digits[d] = c) - 1

RECURSIVE ParseDigits(_, _, _)
ParseDigits(str, i, acc) ==
  IF i > Len(str) \/ ~IsDigit(SubSeq(str, i, i)) THEN acc
  ELSE ParseDigits(str, i + 1, acc * 10 + DigitValue(SubSeq(str, i, i)))

\* parseInt(str, 10) for the strings that occur (no sign, no white space):
\* the leading run of digits, NaN when there is none.
ParseInt(str) ==
  IF Len(str) = 0 \/ ~IsDigit(SubSeq(str, 1, 1))
  THEN [isNaN |-> TRUE, value |-> 0]
  ELSE [isNaN |-> FALSE, value |-> ParseDigits(str, 1, 0)]

(***************************************************************************)
(* ResultExtractor.  A solver result node is                               *)
(*   [id, x, y, width, height, children, edges]; a solver edge is          *)
(*   [id, sources, targets, sections, labels]; a section is                *)
(*   [startPoint, bendPoints, endPoint].                                   *)
(***************************************************************************)

\* findSubgraph over the subgraph forest: the label lookup needs only whether
\* the group exists; the group record keeps the id.
RECURSIVE ExtractNodesAndGroups(_, _, _, _, _)
ExtractNodesAndGroups(elkNode, g, subgraphIds, offsetX, offsetY) ==
  LET RECURSIVE Walk(_, _)
      Walk(k, acc) ==
        IF k > Len(elkNode.children) THEN acc
        ELSE LET child == elkNode.children[k]
                 x == child.x + offsetX
                 y == child.y + offsetY
             IN IF child.id \in subgraphIds
                THEN LET sub == ExtractNodesAndGroups(child, g, subgraphIds, x, y)
                     IN Walk(k + 1,
                          [nodes |-> acc.nodes \o sub.nodes,
                           groups |-> Append(acc.groups,
                              [id |-> child.id, x |-> x, y |-> y,
                               width |-> child.width, height |-> child.height,
                               children |-> sub.groups])])
                ELSE LET own == IF child.id \in Range(g.nodes)
                                THEN <<[id |-> child.id, x |-> x, y |-> y,
                                        width |-> child.width, height |-> child.height]>>
                                ELSE <<>>
                         sub == IF Len(child.children) > 0
                                THEN ExtractNodesAndGroups(child, g, subgraphIds, x, y)
                                ELSE [nodes |-> <<>>, groups |-> <<>>]
                     IN Walk(k + 1,
                          [nodes |-> acc.nodes \o own \o sub.nodes,
                           groups |-> acc.groups \o sub.groups])
  IN Walk(1, [nodes |-> <<>>, groups |-> <<>>])

\* Recursively flatten all group bounding boxes.
RECURSIVE FlattenGroupBounds(_)
FlattenGroupBounds(groups) ==
  Flatten([k \in 1..Len(groups) |->
    <<[x |-> groups[k].x, y |-> groups[k].y,
       right |-> groups[k].x + groups[k].width,
       bottom |-> groups[k].y + groups[k].height]>>
    \o FlattenGroupBounds(groups[k].children)])

MARGIN_GAP == 20

NoMargins == [present |-> FALSE, leftX |-> 0, rightX |-> 0]

ComputeMargins(groups) ==
  LET allBounds == FlattenGroupBounds(groups)
  IN IF Len(allBounds) > 0
     THEN [present |-> TRUE,
           leftX |-> MinOfSeq([k \in 1..Len(allBounds) |-> allBounds[k].x]) - Px(MARGIN_GAP),
           rightX |-> MaxOfSeq([k \in 1..Len(allBounds) |-> allBounds[k].right]) + Px(MARGIN_GAP)]
     ELSE NoMargins

NoSeg == [present |-> FALSE, points |-> <<>>, hasLabelPosition |-> FALSE,
          labelPosition |-> Pt(0, 0)]

NoSegs == [external |-> NoSeg, incoming |-> NoSeg, outgoing |-> NoSeg]

\* A walk that hands each child its own position only, not the accumulated
\* offset.
RECURSIVE WalkEdgesParentOnly(_, _, _)
WalkEdgesParentOnly(elkNode, offsetX, offsetY) ==
  [k \in 1..Len(elkNode.edges) |->
     [edge |-> elkNode.edges[k], offsetX |-> offsetX, offsetY |-> offsetY]]
  \o Flatten([k \in 1..Len(elkNode.children) |->
       WalkEdgesParentOnly(elkNode.children[k],
                           elkNode.children[k].x, elkNode.children[k].y)])

\* The solver edges of the result tree in the order collectEdgeSegments visits
\* them (a container's own edges, then its children's), each with the offset
\* the walk carries at that container.
RECURSIVE WalkEdges(_, _, _)
WalkEdges(elkNode, offsetX, offsetY) ==
  [k \in 1..Len(elkNode.edges) |->
     [edge |-> elkNode.edges[k], offsetX |-> offsetX, offsetY |-> offsetY]]
  \o Flatten([k \in 1..Len(elkNode.children) |->
       WalkEdges(elkNode.children[k],
                 offsetX + elkNode.children[k].x, offsetY + elkNode.children[k].y)])

\* The points of a solver edge: first section only, translated by the offset.
SectionPoints(elkEdge, offsetX, offsetY) ==
  IF Len(elkEdge.sections) > 0
  THEN LET section == elkEdge.sections[1]
           Shift(p) == Pt(p.x + offsetX, p.y + offsetY)
       IN <<Shift(section.startPoint)>>
          \o [k \in 1..Len(section.bendPoints) |-> Shift(section.bendPoints[k])]
          \o <<Shift(section.endPoint)>>
  ELSE <<>>

IsPortName(name) == Includes(name, "_in_") \/ Includes(name, "_out_")

\* The body of collectEdgeSegments' loop for one solver edge: segs is
\* [order (the keys of the Map in insertion order), seg (index -> segments)].
StoreSegment(segs, w) ==
  LET elkEdge == w.edge
      isInternal == EndsWith(elkEdge.id, "_internal")
      parsed == ParseInt(SubSeq(elkEdge.id, 2, Len(elkEdge.id)))
      edgeIndex == parsed.value
      points == SectionPoints(elkEdge, w.offsetX, w.offsetY)
      hasLP == Len(elkEdge.labels) > 0 /\ elkEdge.labels[1].hasXY
      lp == IF hasLP
            THEN Pt(elkEdge.labels[1].x + elkEdge.labels[1].width \div 2 + w.offsetX,
                    elkEdge.labels[1].y + elkEdge.labels[1].height \div 2 + w.offsetY)
            ELSE Pt(0, 0)
      this == [present |-> TRUE, points |-> points, hasLabelPosition |-> hasLP,
               labelPosition |-> lp]
      known == edgeIndex \in DOMAIN segs.seg
      old == IF known THEN segs.seg[edgeIndex] ELSE NoSegs
      source == IF Len(elkEdge.sources) > 0 THEN elkEdge.sources[1] ELSE ""
      target == IF Len(elkEdge.targets) > 0 THEN elkEdge.targets[1] ELSE ""
      new == IF isInternal
             THEN IF IsPortName(source) THEN [old EXCEPT !.incoming = this]
                  ELSE IF IsPortName(target) THEN [old EXCEPT !.outgoing = this]
                  ELSE old
             ELSE [old EXCEPT !.external = this]
  IN IF parsed.isNaN THEN segs
     ELSE [order |-> IF known THEN segs.order ELSE Append(segs.order, edgeIndex),
           seg |-> (edgeIndex :> new) @@ segs.seg]

RECURSIVE FoldSegments(_, _)
FoldSegments(walk, segs) ==
  IF walk = <<>> THEN segs
  ELSE FoldSegments(Tail(walk), StoreSegment(segs, Head(walk)))

CollectEdgeSegments(elkNode) ==
  FoldSegments(WalkEdges(elkNode, 0, 0), [order |-> <<>>, seg |-> EmptyMap])

(***************************************************************************)
(* EdgeAssembler: calculatePathMidpoint, orthogonalizeEdgePoints,          *)
(* extractEdgesRecursively.                                                *)
(***************************************************************************)

\* Math.sqrt on the squared lengths that occur: exact on axis-parallel
\* segments and on the Pythagorean diagonals of the solver pool, rounded down
\* otherwise.
RECURSIVE FloorRoot(_, _, _)
FloorRoot(n, lo, hi) ==
  IF lo >= hi THEN lo
  ELSE LET mid == (lo + hi + 1) \div 2
       IN IF mid * mid <= n THEN FloorRoot(n, mid, hi) ELSE FloorRoot(n, lo, mid - 1)

Sqrt(dx, dy) ==
  IF dx = 0 THEN Abs(dy)
  ELSE IF dy = 0 THEN Abs(dx)
  ELSE FloorRoot(dx * dx + dy * dy, 0, Abs(dx) + Abs(dy))

SegLen(points, i) ==
  Sqrt(points[i].x - points[i - 1].x, points[i].y - points[i - 1].y)

RECURSIVE PathLength(_, _)
PathLength(points, i) ==
  IF i > Len(points) THEN 0 ELSE SegLen(points, i) + PathLength(points, i + 1)

\* The walk to the halfway point.  remaining2 is twice the remaining length,
\* so that totalLength / 2 is exact.  t = remaining / segLen is 0 / 0 = NaN on
\* a zero-length segment reached with nothing remaining.
RECURSIVE WalkToHalf(_, _, _)
WalkToHalf(points, i, remaining2) ==
  IF i > Len(points)
  THEN [x |-> points[Len(points)].x, y |-> points[Len(points)].y, isNaN |-> FALSE]
  ELSE LET dx == points[i].x - points[i - 1].x
           dy == points[i].y - points[i - 1].y
           segLen == SegLen(points, i)
       IN IF remaining2 <= 2 * segLen
          THEN IF segLen = 0
               THEN [x |-> 0, y |-> 0, isNaN |-> TRUE]
               ELSE [x |-> points[i - 1].x + (remaining2 * dx) \div (2 * segLen),
                     y |-> points[i - 1].y + (remaining2 * dy) \div (2 * segLen),
                     isNaN |-> FALSE]
          ELSE WalkToHalf(points, i + 1, remaining2 - 2 * segLen)

CalculatePathMidpoint(points) ==
  IF Len(points) = 0 THEN [x |-> 0, y |-> 0, isNaN |-> FALSE]
  ELSE IF Len(points) = 1 THEN [x |-> points[1].x, y |-> points[1].y, isNaN |-> FALSE]
  ELSE WalkToHalf(points, 2, PathLength(points, 2))

\* dx > 1 && dy > 1 for the pair (a, b).
IsDiagonal(a, b) == Abs(b.x - a.x) > Px(1) /\ Abs(b.y - a.y) > Px(1)

NeedsWork(points) ==
  Len(points) >= 2 /\ \E i \in 2..Len(points) : IsDiagonal(points[i - 1], points[i])

EDGE_SPACING == 12

RECURSIVE OrthogonalizeFrom(_, _, _, _, _)
OrthogonalizeFrom(points, i, result, margins, edgeIndex) ==
  IF i > Len(points) THEN result
  ELSE LET prev == result[Len(result)]
           curr == points[i]
           useRight == edgeIndex % 2 = 0
           offset == (edgeIndex \div 2) * Px(EDGE_SPACING)
           marginX == IF useRight THEN margins.rightX + offset
                      ELSE margins.leftX - offset
           midY == (prev.y + curr.y) \div 2
           bends == IF ~IsDiagonal(prev, curr) THEN <<>>
                    ELSE IF margins.present
                         THEN <<Pt(marginX, prev.y), Pt(marginX, curr.y)>>
                         ELSE <<Pt(prev.x, midY), Pt(curr.x, midY)>>
       IN OrthogonalizeFrom(points, i + 1, result \o bends \o <<curr>>, margins, edgeIndex)

\* A repair with one bend point per diagonal pair.
OrthogonalizeEdgePointsSingleBend(points, margins, edgeIndex) ==
  IF ~NeedsWork(points) THEN points
  ELSE <<points[1]>>
       \o Flatten([k \in 1..(Len(points) - 1) |->
            (IF IsDiagonal(points[k], points[k + 1])
             THEN <<Pt(points[k + 1].x, points[k].y)>> ELSE <<>>)
            \o <<points[k + 1]>>])

OrthogonalizeEdgePoints(points, margins, edgeIndex) ==
  IF ~NeedsWork(points) THEN points
  ELSE OrthogonalizeFrom(points, 2, <<points[1]>>, margins, edgeIndex)

\* Array.prototype.slice(1).
Slice1(points) == IF Len(points) <= 1 THEN <<>> ELSE Tail(points)

\* The combination of the segments of one original edge.
CombineSegments(seg) ==
  LET a == IF seg.outgoing.present /\ Len(seg.outgoing.points) > 0
           THEN seg.outgoing.points ELSE <<>>
      b == IF seg.external.present /\ Len(seg.external.points) > 0
           THEN (IF Len(a) > 0 THEN a \o Slice1(seg.external.points)
                 ELSE seg.external.points)
           ELSE a
  IN IF seg.incoming.present /\ Len(seg.incoming.points) > 0
     THEN (IF Len(b) > 0 THEN b \o Slice1(seg.incoming.points)
           ELSE seg.incoming.points)
     ELSE b

HasLabel(edge) == edge.label # Undefined /\ edge.label # ""

NoLabelPosition == [x |-> 0, y |-> 0, isNaN |-> FALSE]

\* The positioned edge of one entry of the segment map; marginEdgeIndex is the
\* counter of the edges repaired so far.
AssembleEdge(originalEdge, seg, margins, marginEdgeIndex) ==
  LET allPoints == CombineSegments(seg)
      labelled == HasLabel(originalEdge)
      first == labelled /\ Len(allPoints) >= 2
      firstLP == IF seg.external.present /\ seg.external.hasLabelPosition
                 THEN [x |-> seg.external.labelPosition.x,
                       y |-> seg.external.labelPosition.y, isNaN |-> FALSE]
                 ELSE CalculatePathMidpoint(allPoints)
      orthogonalPoints == OrthogonalizeEdgePoints(allPoints, margins, marginEdgeIndex)
      repaired == NeedsWork(allPoints)
      again == labelled /\ repaired /\ Len(orthogonalPoints) >= 2
  IN [source |-> originalEdge.source,
      target |-> originalEdge.target,
      label |-> originalEdge.label,
      style |-> originalEdge.style,
      points |-> orthogonalPoints,
      hasLabelPosition |-> first \/ again,
      labelPosition |-> IF again THEN CalculatePathMidpoint(orthogonalPoints)
                        ELSE IF first THEN firstLP
                        ELSE NoLabelPosition]

\* An assembly whose counter advances with every edge.
RECURSIVE AssembleAllCountingEvery(_, _, _, _, _, _)
AssembleAllCountingEvery(g, segs, margins, k, marginEdgeIndex, edges) ==
  IF k > Len(segs.order) THEN edges
  ELSE LET edgeIndex == segs.order[k]
       IN IF edgeIndex >= Len(g.edges)
          THEN AssembleAllCountingEvery(g, segs, margins, k + 1, marginEdgeIndex, edges)
          ELSE AssembleAllCountingEvery(g, segs, margins, k + 1, marginEdgeIndex + 1,
                 Append(edges, AssembleEdge(g.edges[edgeIndex + 1], segs.seg[edgeIndex],
                                            margins, marginEdgeIndex)))

RECURSIVE AssembleAll(_, _, _, _, _, _)
AssembleAll(g, segs, margins, k, marginEdgeIndex, edges) ==
  IF k > Len(segs.order) THEN edges
  ELSE LET edgeIndex == segs.order[k]
       IN IF edgeIndex >= Len(g.edges)
          THEN AssembleAll(g, segs, margins, k + 1, marginEdgeIndex, edges)
          ELSE LET seg == segs.seg[edgeIndex]
                   e == AssembleEdge(g.edges[edgeIndex + 1], seg, margins, marginEdgeIndex)
                   next == IF NeedsWork(CombineSegments(seg))
                           THEN marginEdgeIndex + 1 ELSE marginEdgeIndex
               IN AssembleAll(g, segs, margins, k + 1, next, Append(edges, e))

ExtractEdgesRecursively(elkNode, g, margins) ==
  AssembleAll(g, CollectEdgeSegments(elkNode), margins, 1, 0, <<>>)

(***************************************************************************)
(* LayerAligner: alignLayerNodes.                                          *)
(***************************************************************************)
DEFAULT_LAYER_SPACING == 48

\* DEFAULTS.layerSpacing * 0.6
THRESHOLD == (Px(DEFAULT_LAYER_SPACING) * 6) \div 10

IsHorizontal(direction) == direction = "LR" \/ direction = "RL"

FlowPos(direction, n) == IF IsHorizontal(direction) THEN n.x ELSE n.y
SetFlowPos(direction, n, v) ==
  IF IsHorizontal(direction) THEN [n EXCEPT !.x = v] ELSE [n EXCEPT !.y = v]

PairKey(a, b) == a \o ":" \o b

ConnectedPairs(edges) ==
  UNION {{PairKey(edges[k].source, edges[k].target),
          PairKey(edges[k].target, edges[k].source)} : k \in 1..Len(edges)}

\* [...nodes].sort(by flow position): a stable sort; the result is the
\* sequence of the indices of the nodes.
RECURSIVE InsertSorted(_, _, _, _)
InsertSorted(sorted, i, nodes, direction) ==
  IF sorted = <<>> THEN <<i>>
  ELSE IF FlowPos(direction, nodes[Head(sorted)]) <= FlowPos(direction, nodes[i])
       THEN <<Head(sorted)>> \o InsertSorted(Tail(sorted), i, nodes, direction)
       ELSE <<i>> \o sorted

RECURSIVE SortedIndices(_, _, _)
SortedIndices(nodes, k, direction) ==
  IF k = 0 THEN <<>>
  ELSE InsertSorted(SortedIndices(nodes, k - 1, direction), k, nodes, direction)

\* Mutant of JoinsLayer: the connectivity check is dropped.
JoinsLayerGapOnly(nodes, edges, direction, prev, cur, currentLayer) ==
  FlowPos(direction, nodes[cur]) - FlowPos(direction, nodes[prev]) <= THRESHOLD

\* Whether sorted node cur joins the current layer: the gap from the previous
\* node in sort order is within the threshold and no node of the layer is
\* connected to it.
JoinsLayer(nodes, edges, direction, prev, cur, currentLayer) ==
  LET gap == FlowPos(direction, nodes[cur]) - FlowPos(direction, nodes[prev])
      hasEdgeToLayer ==
        \E k \in 1..Len(currentLayer) :
          PairKey(nodes[currentLayer[k]].id, nodes[cur].id) \in ConnectedPairs(edges)
  IN gap <= THRESHOLD /\ ~hasEdgeToLayer

RECURSIVE BuildLayers(_, _, _, _, _, _, _)
BuildLayers(nodes, edges, direction, sorted, i, layers, currentLayer) ==
  IF i > Len(sorted) THEN Append(layers, currentLayer)
  ELSE IF JoinsLayer(nodes, edges, direction, sorted[i - 1], sorted[i], currentLayer)
       THEN BuildLayers(nodes, edges, direction, sorted, i + 1, layers,
                        Append(currentLayer, sorted[i]))
       ELSE BuildLayers(nodes, edges, direction, sorted, i + 1,
                        Append(layers, currentLayer), <<sorted[i]>>)

\* The layers (clusters) of alignLayerNodes, as sequences of node indices.
Layers(nodes, edges, direction) ==
  IF Len(nodes) = 0 THEN <<>>
  ELSE LET sorted == SortedIndices(nodes, Len(nodes), direction)
       IN BuildLayers(nodes, edges, direction, sorted, 2, <<>>, <<sorted[1]>>)

\* Mutant of SnapTarget: the layer is snapped to its first member.
SnapTargetFirst(nodes, direction, layer) == FlowPos(direction, nodes[layer[1]])

\* The snap target of a layer: the centre of its coordinate range.
SnapTarget(nodes, direction, layer) ==
  LET positions == [k \in 1..Len(layer) |-> FlowPos(direction, nodes[layer[k]])]
  IN (MinOfSeq(positions) + MaxOfSeq(positions)) \div 2

\* Whether the layer is snapped at all (more than one member, range > 1).
LayerIsSnapped(nodes, direction, layer) ==
  LET positions == [k \in 1..Len(layer) |-> FlowPos(direction, nodes[layer[k]])]
  IN Len(layer) > 1 /\ MaxOfSeq(positions) - MinOfSeq(positions) > Px(1)

\* The shift of node i: target - oldPos when its layer is snapped and
\* |delta| > 0.5, otherwise no entry in the deltas map (0 here, with Moved false).
NodeDelta(nodes, layers, direction, i) ==
  LET layer == layers[CHOOSE l \in 1..Len(layers) : i \in Range(layers[l])]
      delta == SnapTarget(nodes, direction, layer) - FlowPos(direction, nodes[i])
  IN IF LayerIsSnapped(nodes, direction, layer) /\ 2 * Abs(delta) > Px(1)
     THEN delta ELSE 0

\* deltas.get(id): the delta of the node with this id (Undefined when the
\* node was not shifted or does not exist).
DeltaOf(nodes, deltas, id) ==
  IF \E i \in 1..Len(nodes) : nodes[i].id = id /\ deltas[i] # 0
  THEN [has |-> TRUE,
        value |-> deltas[CHOOSE i \in 1..Len(nodes) : nodes[i].id = id /\ deltas[i] # 0]]
  ELSE [has |-> FALSE, value |-> 0]

\* An adjustment that moves the two end points only.
AdjustEdgePointsEndsOnly(points, direction, srcDelta, tgtDelta) ==
  LET len == Len(points)
      afterSrc == IF ~srcDelta.has THEN points
                  ELSE [points EXCEPT ![1] = SetFlowPos(direction, points[1],
                                         FlowPos(direction, points[1]) + srcDelta.value)]
  IN IF ~tgtDelta.has THEN afterSrc
     ELSE [afterSrc EXCEPT ![len] = SetFlowPos(direction, afterSrc[len],
                                      FlowPos(direction, afterSrc[len]) + tgtDelta.value)]

\* The adjustment of one edge's point list, in place and in the code's order:
\* first the source end, then the target end.
AdjustEdgePoints(points, direction, srcDelta, tgtDelta) ==
  LET len == Len(points)
      afterSrc ==
        IF ~srcDelta.has THEN points
        ELSE LET first == SetFlowPos(direction, points[1],
                            FlowPos(direction, points[1]) + srcDelta.value)
                 p1 == [points EXCEPT ![1] = first]
             IN IF len > 1 /\ FlowPos(direction, p1[2])
                               = FlowPos(direction, first) - srcDelta.value
                THEN [p1 EXCEPT ![2] = SetFlowPos(direction, p1[2],
                                         FlowPos(direction, p1[2]) + srcDelta.value)]
                ELSE p1
  IN IF ~tgtDelta.has THEN afterSrc
     ELSE LET last == SetFlowPos(direction, afterSrc[len],
                        FlowPos(direction, afterSrc[len]) + tgtDelta.value)
              p2 == [afterSrc EXCEPT ![len] = last]
          IN IF len > 1 /\ FlowPos(direction, p2[len - 1])
                            = FlowPos(direction, last) - tgtDelta.value
             THEN [p2 EXCEPT ![len - 1] = SetFlowPos(direction, p2[len - 1],
                                            FlowPos(direction, p2[len - 1]) + tgtDelta.value)]
             ELSE p2

\* alignLayerNodes: the nodes and edges after the pass, with the layers and the
\* per-node deltas it computed.
AlignLayerNodes(nodes, edges, direction) ==
  LET layers == Layers(nodes, edges, direction)
      deltas == [i \in 1..Len(nodes) |-> NodeDelta(nodes, layers, direction, i)]
      newNodes == [i \in 1..Len(nodes) |->
                     SetFlowPos(direction, nodes[i],
                                FlowPos(direction, nodes[i]) + deltas[i])]
      newEdges == [k \in 1..Len(edges) |->
                     IF Len(edges[k].points) < 2 THEN edges[k]
                     ELSE [edges[k] EXCEPT !.points =
                             AdjustEdgePoints(edges[k].points, direction,
                               DeltaOf(nodes, deltas, edges[k].source),
                               DeltaOf(nodes, deltas, edges[k].target))]]
  IN [nodes |-> newNodes, edges |-> newEdges, layers |-> layers, deltas |-> deltas]

(***************************************************************************)
(* EdgeBundler: findGroupsContainingPoint, adjustJunctionForGroups,        *)
(* bundleEdgePaths.                                                        *)
(***************************************************************************)

\* All groups (outermost first) that geometrically contain the point.
RECURSIVE FindGroupsContainingPoint(_, _, _)
FindGroupsContainingPoint(x, y, groups) ==
  Flatten([k \in 1..Len(groups) |->
    LET gr == groups[k]
    IN IF x >= gr.x /\ x <= gr.x + gr.width /\ y >= gr.y /\ y <= gr.y + gr.height
       THEN <<gr>> \o FindGroupsContainingPoint(x, y, gr.children)
       ELSE <<>>])

JUNCTION_GAP == 12

AdjustJunctionForGroups(junctionMain, refX, refY, groups, direction) ==
  LET refGroups == FindGroupsContainingPoint(refX, refY, groups)
      refGroupIds == {refGroups[k].id : k \in 1..Len(refGroups)}
      probeX == IF IsHorizontal(direction) THEN junctionMain ELSE refX
      probeY == IF IsHorizontal(direction) THEN refY ELSE junctionMain
      junctionGroups == FindGroupsContainingPoint(probeX, probeY, groups)
      crossing == SelectSeqIdx(junctionGroups,
                    LAMBDA k : junctionGroups[k].id \notin refGroupIds, 1)
  IN IF crossing = <<>> THEN junctionMain
     ELSE LET crossingGroup == crossing[1]
          IN IF direction = "LR" THEN crossingGroup.x - Px(JUNCTION_GAP)
             ELSE IF direction = "RL"
                  THEN crossingGroup.x + crossingGroup.width + Px(JUNCTION_GAP)
             ELSE IF direction = "BT"
                  THEN crossingGroup.y + crossingGroup.height + Px(JUNCTION_GAP)
             ELSE crossingGroup.y - Px(JUNCTION_GAP)

\* new Map(nodes.map(n => [n.id, n])).get(id): the last node with the id.
HasNode(nodes, id) == \E i \in 1..Len(nodes) : nodes[i].id = id
NodeById(nodes, id) ==
  nodes[CHOOSE i \in 1..Len(nodes) :
          nodes[i].id = id /\ \A j \in (i + 1)..Len(nodes) : nodes[j].id # id]

\* Mutant of GroupIsUniform: only labels disable a bundle, styles are ignored.
GroupIsUniformLabelsOnly(edges, members) ==
  ~\E k \in 1..Len(members) : HasLabel(edges[members[k]])

\* !group.some(e => e.label || e.style !== style), style that of the first
\* member.
GroupIsUniform(edges, members) ==
  ~\E k \in 1..Len(members) :
      HasLabel(edges[members[k]]) \/ edges[members[k]].style # edges[members[1]].style

\* The members (edge positions, in order) of the fan-out group of a source.
FanOutGroup(edges, sourceId) ==
  SelectSeqIdx([k \in 1..Len(edges) |-> k],
    LAMBDA k : edges[k].source # edges[k].target /\ edges[k].source = sourceId, 1)

\* The target of edge e lies forward of the source along the flow.
ForwardOfSource(direction, source, t) ==
  IF direction = "LR" THEN t.x > source.x + source.width
  ELSE IF direction = "RL" THEN t.x + t.width < source.x
  ELSE IF direction = "BT" THEN t.y + t.height < source.y
  ELSE t.y > source.y + source.height

\* The members of a fan-out group that are bundled (empty when the group does
\* not qualify).
FanOutBundle(edges, nodes, direction, sourceId) ==
  LET group == FanOutGroup(edges, sourceId)
  IN IF Len(group) < 2 \/ ~GroupIsUniform(edges, group) \/ ~HasNode(nodes, sourceId)
     THEN <<>>
     ELSE LET source == NodeById(nodes, sourceId)
              forward == SelectSeqIdx(group,
                LAMBDA k : HasNode(nodes, edges[group[k]].target)
                           /\ ForwardOfSource(direction, source,
                                NodeById(nodes, edges[group[k]].target)), 1)
          IN IF Len(forward) < 2 THEN <<>> ELSE forward

\* Mutant of FanOutPoints: the junction is computed per target instead of from
\* the nearest target, so the trunk is no longer shared.
FanOutPointsPerTarget(edges, nodes, groups, direction, bundle, k) ==
  LET source == NodeById(nodes, edges[k].source)
      target == NodeById(nodes, edges[k].target)
      srcCX == source.x + source.width \div 2
      srcCY == source.y + source.height \div 2
  IN IF IsHorizontal(direction)
     THEN LET exitX == IF direction = "LR" THEN source.x + source.width ELSE source.x
              entryX == IF direction = "LR" THEN target.x ELSE target.x + target.width
              entryY == target.y + target.height \div 2
              junctionX == exitX + (entryX - exitX) \div 2
          IN <<Pt(exitX, srcCY), Pt(junctionX, srcCY), Pt(junctionX, entryY),
               Pt(entryX, entryY)>>
     ELSE LET exitY == IF direction = "BT" THEN source.y ELSE source.y + source.height
              entryX == target.x + target.width \div 2
              entryY == IF direction = "BT" THEN target.y + target.height ELSE target.y
              junctionY == exitY + (entryY - exitY) \div 2
          IN <<Pt(srcCX, exitY), Pt(srcCX, junctionY), Pt(entryX, junctionY),
               Pt(entryX, entryY)>>

\* The rewritten point list of member k of a fan-out bundle.
FanOutPoints(edges, nodes, groups, direction, bundle, k) ==
  LET source == NodeById(nodes, edges[k].source)
      target == NodeById(nodes, edges[k].target)
      tnodes == [j \in 1..Len(bundle) |-> NodeById(nodes, edges[bundle[j]].target)]
      srcCX == source.x + source.width \div 2
      srcCY == source.y + source.height \div 2
  IN IF IsHorizontal(direction)
     THEN LET exitX == IF direction = "LR" THEN source.x + source.width ELSE source.x
              exitY == srcCY
              nearestX == IF direction = "LR"
                          THEN MinOfSeq([j \in 1..Len(tnodes) |-> tnodes[j].x])
                          ELSE MaxOfSeq([j \in 1..Len(tnodes) |-> tnodes[j].x + tnodes[j].width])
              junctionX == AdjustJunctionForGroups(exitX + (nearestX - exitX) \div 2,
                                                   srcCX, srcCY, groups, direction)
              entryX == IF direction = "LR" THEN target.x ELSE target.x + target.width
              entryY == target.y + target.height \div 2
          IN <<Pt(exitX, exitY), Pt(junctionX, exitY), Pt(junctionX, entryY),
               Pt(entryX, entryY)>>
     ELSE LET exitX == srcCX
              exitY == IF direction = "BT" THEN source.y ELSE source.y + source.height
              nearestY == IF direction = "BT"
                          THEN MaxOfSeq([j \in 1..Len(tnodes) |-> tnodes[j].y + tnodes[j].height])
                          ELSE MinOfSeq([j \in 1..Len(tnodes) |-> tnodes[j].y])
              junctionY == AdjustJunctionForGroups(exitY + (nearestY - exitY) \div 2,
                                                   srcCX, srcCY, groups, direction)
              entryX == target.x + target.width \div 2
              entryY == IF direction = "BT" THEN target.y + target.height ELSE target.y
          IN <<Pt(exitX, exitY), Pt(exitX, junctionY), Pt(entryX, junctionY),
               Pt(entryX, entryY)>>

\* The edges (positions) rewritten by the fan-out pass: the set "processed".
Processed(edges, nodes, direction) ==
  {k \in 1..Len(edges) : k \in Range(FanOutBundle(edges, nodes, direction, edges[k].source))}

\* The members of the fan-in group of a target: not processed, no self-loops.
FanInGroup(edges, nodes, direction, targetId) ==
  SelectSeqIdx([k \in 1..Len(edges) |-> k],
    LAMBDA k : /\ k \notin Processed(edges, nodes, direction)
               /\ edges[k].source # edges[k].target
               /\ edges[k].target = targetId, 1)

\* The source of an edge lies before the target along the flow.
SourceBeforeTarget(direction, target, src) ==
  IF direction = "LR" THEN src.x + src.width < target.x
  ELSE IF direction = "RL" THEN src.x > target.x + target.width
  ELSE IF direction = "BT" THEN src.y > target.y + target.height
  ELSE src.y + src.height < target.y

FanInBundle(edges, nodes, direction, targetId) ==
  LET group == FanInGroup(edges, nodes, direction, targetId)
  IN IF Len(group) < 2 \/ ~GroupIsUniform(edges, group) \/ ~HasNode(nodes, targetId)
     THEN <<>>
     ELSE LET target == NodeById(nodes, targetId)
              forward == SelectSeqIdx(group,
                LAMBDA k : HasNode(nodes, edges[group[k]].source)
                           /\ SourceBeforeTarget(direction, target,
                                NodeById(nodes, edges[group[k]].source)), 1)
          IN IF Len(forward) < 2 THEN <<>> ELSE forward

\* The rewritten point list of member k of a fan-in bundle.
FanInPoints(edges, nodes, groups, direction, bundle, k) ==
  LET target == NodeById(nodes, edges[k].target)
      src == NodeById(nodes, edges[k].source)
      snodes == [j \in 1..Len(bundle) |-> NodeById(nodes, edges[bundle[j]].source)]
      tgtCX == target.x + target.width \div 2
      tgtCY == target.y + target.height \div 2
  IN IF IsHorizontal(direction)
     THEN LET entryX == IF direction = "LR" THEN target.x ELSE target.x + target.width
              entryY == tgtCY
              farthestX == IF direction = "LR"
                           THEN MaxOfSeq([j \in 1..Len(snodes) |-> snodes[j].x + snodes[j].width])
                           ELSE MinOfSeq([j \in 1..Len(snodes) |-> snodes[j].x])
              junctionX == AdjustJunctionForGroups(farthestX + (entryX - farthestX) \div 2,
                                                   tgtCX, tgtCY, groups, direction)
              exitX == IF direction = "LR" THEN src.x + src.width ELSE src.x
              exitY == src.y + src.height \div 2
          IN <<Pt(exitX, exitY), Pt(junctionX, exitY), Pt(junctionX, entryY),
               Pt(entryX, entryY)>>
     ELSE LET entryX == tgtCX
              entryY == IF direction = "BT" THEN target.y + target.height ELSE target.y
              farthestY == IF direction = "BT"
                           THEN MinOfSeq([j \in 1..Len(snodes) |-> snodes[j].y])
                           ELSE MaxOfSeq([j \in 1..Len(snodes) |-> snodes[j].y + snodes[j].height])
              junctionY == AdjustJunctionForGroups(farthestY + (entryY - farthestY) \div 2,
                                                   tgtCX, tgtCY, groups, direction)
              exitX == src.x + src.width \div 2
              exitY == IF direction = "BT" THEN src.y ELSE src.y + src.height
          IN <<Pt(exitX, exitY), Pt(exitX, junctionY), Pt(entryX, junctionY),
               Pt(entryX, entryY)>>

\* bundleEdgePaths: the edges after the pass.
BundleEdgePaths(edges, nodes, groups, direction) ==
  [k \in 1..Len(edges) |->
     LET out == FanOutBundle(edges, nodes, direction, edges[k].source)
         inb == FanInBundle(edges, nodes, direction, edges[k].target)
     IN IF k \in Range(out)
        THEN [edges[k] EXCEPT !.points = FanOutPoints(edges, nodes, groups, direction, out, k)]
        ELSE IF k \in Range(inb)
        THEN [edges[k] EXCEPT !.points = FanInPoints(edges, nodes, groups, direction, inb, k)]
        ELSE edges[k]]

(***************************************************************************)
(* Input families.  Groups are G1..Gn; the parent of Gi is 0 (top level)   *)
(* or an earlier group, so the forest is acyclic by construction.  Every   *)
(* node is a member of at most one group (mem[k] = 0: of none).            *)
(***************************************************************************)
GroupName(i) == "G" \o ToString(i)

RECURSIVE MkSubgraph(_, _, _, _, _, _)
MkSubgraph(i, n, par, dir, nodeSeq, mem) ==
  LET kids == SelectSeqIdx([k \in 1..n |-> k], LAMBDA k : par[k] = i, 1)
  IN [id |-> GroupName(i),
      nodeIds |-> SelectSeqIdx(nodeSeq, LAMBDA k : mem[k] = i, 1),
      children |-> [k \in 1..Len(kids) |-> MkSubgraph(kids[k], n, par, dir, nodeSeq, mem)],
      direction |-> dir[i]]

MkForest(n, par, dir, nodeSeq, mem) ==
  LET tops == SelectSeqIdx([k \in 1..n |-> k], LAMBDA k : par[k] = 0, 1)
  IN [k \in 1..Len(tops) |-> MkSubgraph(tops[k], n, par, dir, nodeSeq, mem)]

\* All forests over n groups with every membership of the nodes of nodeSeq.
Forests(n, nodeSeq) ==
  {MkForest(n, par, dir, nodeSeq, mem) :
     par \in {p \in [1..n -> 0..n] : \A k \in 1..n : p[k] < k},
     dir \in [1..n -> {Undefined, "LR"}],
     mem \in [1..Len(nodeSeq) -> 0..n]}

SeqsUpTo(S, n) == UNION {[1..k -> S] : k \in 0..n}

TrNodes == <<"A", "B">>

\* Edges between the nodes, and one whose target is the id of a group (or of
\* nothing, in a graph without groups).
TrEdges ==
  {[source |-> s, target |-> t, label |-> Undefined, style |-> "solid"] :
     s \in Range(TrNodes), t \in Range(TrNodes)}
  \cup {[source |-> "A", target |-> "G1", label |-> Undefined, style |-> "solid"]}

TrGraphs ==
  {[direction |-> "TD", nodes |-> TrNodes, edges |-> es, subgraphs |-> f] :
     es \in SeqsUpTo(TrEdges, MaxEdges),
     f \in UNION {Forests(n, TrNodes) : n \in 0..MaxGroups}}

(***************************************************************************)
(* Specification of the translator alone.                                  *)
(***************************************************************************)
NoElk == [id |-> "none"]

DEFAULT_PADDING == 40

\* The options the code reads: DEFAULTS.padding and DEFAULTS.layerSpacing.
DEFAULTS == [padding |-> Px(DEFAULT_PADDING), layerSpacing |-> Px(DEFAULT_LAYER_SPACING)]

NoCanvas == [width |-> 0, height |-> 0, isNaN |-> FALSE]

NoPre == [nodes |-> <<>>, edges |-> <<>>]
NoInfo == [pass |-> "none"]

\* No other implementation is involved in a layout call; nothing returned yet.
NoRuntime == [kind |-> "none"]
NoResult == [op |-> "none"]

\* The process after an earlier layout call: the solver singleton and its
\* worker exist (ensureElk returns at once), setTimeout is the original
\* function (0 interceptors around it) and the worker's handler is its own.
SettledGlobals ==
  [setTimeout |-> 0, self |-> "absent", document |-> FALSE,
   elk |-> TRUE, rawWorker |-> TRUE, onmessage |-> "original"]

InitTranslate ==
  /\ pc = "start"
  /\ graph \in TrGraphs
  /\ elk = NoElk
  /\ posNodes = <<>> /\ posEdges = <<>> /\ posGroups = <<>>
  /\ opts = DEFAULTS
  /\ pre = NoPre /\ info = NoInfo /\ canvas = NoCanvas
  /\ runtime = NoRuntime /\ wire = NoResult /\ answer = NoResult
  /\ returned = NoResult
  /\ globals = SettledGlobals

Translate ==
  /\ pc = "start"
  /\ elk' = MermaidToElk(graph)
  /\ pc' = "translated"
  /\ UNCHANGED <<graph, opts, posNodes, posEdges, posGroups, pre, info, canvas, runtime, wire, answer, returned,
                 globals>>

NextTranslate == Translate

SpecTranslate == InitTranslate /\ [][NextTranslate]_vars

(***************************************************************************)
(* Claims about the translator.                                            *)
(***************************************************************************)

\* Whether a group, or a group nested in it at any depth, declares a
\* direction override.
RECURSIVE DeclaresDirection(_)
DeclaresDirection(sg) ==
  sg.direction # Undefined
  \/ \E c \in 1..Len(sg.children) : DeclaresDirection(sg.children[c])

\* The groups of a subtree that list node n as a member.
RECURSIVE OwnersIn(_, _)
OwnersIn(sg, n) ==
  (IF n \in Range(sg.nodeIds) THEN {sg.id} ELSE {})
  \cup UNION {OwnersIn(sg.children[c], n) : c \in 1..Len(sg.children)}

Owners(g, n) == UNION {OwnersIn(g.subgraphs[k], n) : k \in 1..Len(g.subgraphs)}

\* Every solver edge of a solver input tree, with the container holding it.
RECURSIVE ElkEdgesOf(_)
ElkEdgesOf(n) ==
  [k \in 1..Len(n.edges) |->
     [container |-> n.id, ports |-> Range(n.ports), edge |-> n.edges[k]]]
  \o Flatten([k \in 1..Len(n.children) |-> ElkEdgesOf(n.children[k])])

RECURSIVE ElkPortsOf(_)
ElkPortsOf(n) ==
  n.ports \o Flatten([k \in 1..Len(n.children) |-> ElkPortsOf(n.children[k])])

CountSeq(s, P(_)) == Cardinality({k \in 1..Len(s) : P(s[k])})

\* C1: SEPARATE is selected if and only if at least one group of the forest,
\* top-level or nested at any depth, declares a direction override; otherwise
\* INCLUDE_CHILDREN is selected.
C1_SeparateIffAnyOverride ==
  pc = "translated" =>
    /\ elk.hierarchyHandling \in {"SEPARATE", "INCLUDE_CHILDREN"}
    /\ (elk.hierarchyHandling = "SEPARATE") <=>
         (\E k \in 1..Len(graph.subgraphs) : DeclaresDirection(graph.subgraphs[k]))

\* C2: every original edge i yields exactly one solver edge with the plain id
\* e{i}; one outgoing-internal edge (source node -> exit port, inside the
\* source's group) exactly when the mode is SEPARATE, the edge is
\* cross-hierarchy and its source is grouped; one incoming-internal edge
\* (entry port -> target node, inside the target's group) exactly when the mode
\* is SEPARATE, the edge is cross-hierarchy and its target is grouped; no other
\* solver edge exists, and without groups there is no port and no internal edge.
C2_EdgeEmission ==
  pc = "translated" =>
    LET all == ElkEdgesOf(elk)
        sep == elk.hierarchyHandling = "SEPARATE"
        NumOut(i) ==
          LET e == graph.edges[i + 1]
          IN CountSeq(all, LAMBDA r :
               /\ r.edge.id = "e" \o ToString(i) \o "_internal"
               /\ r.container \in Owners(graph, e.source)
               /\ r.edge.sources = <<e.source>>
               /\ Len(r.edge.targets) = 1 /\ r.edge.targets[1] \in r.ports)
        NumIn(i) ==
          LET e == graph.edges[i + 1]
          IN CountSeq(all, LAMBDA r :
               /\ r.edge.id = "e" \o ToString(i) \o "_internal"
               /\ r.container \in Owners(graph, e.target)
               /\ r.edge.targets = <<e.target>>
               /\ Len(r.edge.sources) = 1 /\ r.edge.sources[1] \in r.ports)
        Want(b) == IF b THEN 1 ELSE 0
    IN /\ \A i \in EdgeIndices(graph) :
            LET e == graph.edges[i + 1]
                so == Owners(graph, e.source)
                to == Owners(graph, e.target)
                cross == so # to
            IN /\ CountSeq(all, LAMBDA r : r.edge.id = "e" \o ToString(i)) = 1
               /\ NumOut(i) = Want(sep /\ cross /\ so # {})
               /\ NumIn(i) = Want(sep /\ cross /\ to # {})
               /\ CountSeq(all, LAMBDA r : r.edge.id = "e" \o ToString(i) \o "_internal")
                    = NumOut(i) + NumIn(i)
       /\ \A k \in 1..Len(all) :
            \E i \in EdgeIndices(graph) :
              all[k].edge.id \in {"e" \o ToString(i), "e" \o ToString(i) \o "_internal"}
       /\ graph.subgraphs = <<>> =>
            /\ ElkPortsOf(elk) = <<>>
            /\ Len(all) = Len(graph.edges)

\* A cross-hierarchy edge between two grouped nodes was translated under
\* SEPARATE: three solver edges were emitted for it.
C2_Witness ==
  /\ pc = "translated"
  /\ elk.hierarchyHandling = "SEPARATE"
  /\ \E i \in EdgeIndices(graph) :
       /\ Owners(graph, graph.edges[i + 1].source) # {}
       /\ Owners(graph, graph.edges[i + 1].target) # {}
       /\ Owners(graph, graph.edges[i + 1].source) # Owners(graph, graph.edges[i + 1].target)
       /\ CountSeq(ElkEdgesOf(elk), LAMBDA r :
            r.edge.id = "e" \o ToString(i) \o "_internal") = 2

(***************************************************************************)
(* Specification of the layer aligner alone: alignLayerNodes applied to    *)
(* positioned nodes and edges as the extraction hands them over.           *)
(***************************************************************************)
AlMaxNodes == 3

AlNodeIds == <<"A", "B", "C", "D", "E">>

\* Flow-axis coordinates of the pool, in units (1 px = 20): 0, 0.5, 1.5,
\* 28.8 (the threshold) and 40 px.
AlFlowPool == {0, 10, 30, 576, 800}

AlNode(direction, i, pos) ==
  IF IsHorizontal(direction)
  THEN [id |-> AlNodeIds[i], x |-> pos, y |-> Px(100 * (i - 1)),
        width |-> Px(60), height |-> Px(36)]
  ELSE [id |-> AlNodeIds[i], x |-> Px(100 * (i - 1)), y |-> pos,
        width |-> Px(60), height |-> Px(36)]

Centre(n) == Pt(n.x + n.width \div 2, n.y + n.height \div 2)

\* The pairs i < j of node indices, ordered by j and then by i; the first
\* n * (n - 1) / 2 of them are the pairs of 1..n.
AlPairs ==
  <<<<1, 2>>, <<1, 3>>, <<2, 3>>, <<1, 4>>, <<2, 4>>, <<3, 4>>,
    <<1, 5>>, <<2, 5>>, <<3, 5>>, <<4, 5>>>>

PairCount(n) == (n * (n - 1)) \div 2

\* One straight edge per chosen pair, from centre to centre.
AlEdges(ns, chosen) ==
  LET pairs == SelectSeqIdx(AlPairs, LAMBDA k : k \in chosen, 1)
  IN [k \in 1..Len(pairs) |->
        [source |-> ns[pairs[k][1]].id, target |-> ns[pairs[k][2]].id,
         label |-> Undefined, style |-> "solid",
         points |-> <<Centre(ns[pairs[k][1]]), Centre(ns[pairs[k][2]])>>,
         hasLabelPosition |-> FALSE, labelPosition |-> NoLabelPosition]]

EmptyGraph(direction) ==
  [direction |-> direction, nodes |-> <<>>, edges |-> <<>>, subgraphs |-> <<>>]

InitAlign ==
  /\ pc = "align"
  /\ \E direction \in {"TD", "LR"} :
     \E n \in 1..AlMaxNodes :
     \E pos \in [1..n -> AlFlowPool] :
     \E chosen \in SUBSET (1..PairCount(n)) :
       LET ns == [i \in 1..n |-> AlNode(direction, i, pos[i])]
       IN /\ graph = EmptyGraph(direction)
          /\ posNodes = ns
          /\ posEdges = AlEdges(ns, chosen)
  /\ elk = NoElk
  /\ posGroups = <<>>
  /\ opts = DEFAULTS
  /\ pre = NoPre /\ info = NoInfo /\ canvas = NoCanvas
  /\ runtime = NoRuntime /\ wire = NoResult /\ answer = NoResult
  /\ returned = NoResult
  /\ globals = SettledGlobals

\* The alignLayerNodes call of elkToPositioned.
Align ==
  /\ pc = "align"
  /\ LET r == AlignLayerNodes(posNodes, posEdges, graph.direction)
     IN /\ posNodes' = r.nodes
        /\ posEdges' = r.edges
        /\ info' = [pass |-> "align", layers |-> r.layers, deltas |-> r.deltas]
  /\ pre' = [nodes |-> posNodes, edges |-> posEdges]
  /\ pc' = "bundle"
  /\ UNCHANGED <<graph, opts, elk, posGroups, canvas, runtime, wire, answer, returned, globals>>

NextAlign == Align

SpecAlign == InitAlign /\ [][NextAlign]_vars

\* The layer (cluster) that holds node i after the pass.
LayerOf(i) == CHOOSE l \in 1..Len(info.layers) : i \in Range(info.layers[l])

Aligned == pc = "bundle" /\ info.pass = "align"

\* C9: layer alignment never puts two nodes that are directly connected by an
\* edge into the same cluster.
C9_ConnectedNeverSameLayer ==
  Aligned =>
    \A k \in 1..Len(pre.edges) :
    \A i, j \in 1..Len(pre.nodes) :
      (/\ i # j
       /\ pre.nodes[i].id = pre.edges[k].source
       /\ pre.nodes[j].id = pre.edges[k].target)
      => LayerOf(i) # LayerOf(j)

\* Two connected nodes lie within the threshold of each other along the flow
\* axis, next to each other in sort order, and were kept apart.
C9_Witness ==
  /\ Aligned
  /\ \E k \in 1..Len(pre.edges) :
     \E i, j \in 1..Len(pre.nodes) :
       /\ i # j
       /\ pre.nodes[i].id = pre.edges[k].source
       /\ pre.nodes[j].id = pre.edges[k].target
       /\ Abs(FlowPos(graph.direction, pre.nodes[i])
              - FlowPos(graph.direction, pre.nodes[j])) <= THRESHOLD
       /\ Len(pre.nodes) = 2
       /\ LayerOf(i) # LayerOf(j)

\* The coordinate range of a layer before the pass.
LayerMin(l) ==
  MinOfSeq([k \in 1..Len(info.layers[l]) |->
              FlowPos(graph.direction, pre.nodes[info.layers[l][k]])])
LayerMax(l) ==
  MaxOfSeq([k \in 1..Len(info.layers[l]) |->
              FlowPos(graph.direction, pre.nodes[info.layers[l][k]])])

BuMaxEdges == 3

BuPairs ==
  <<<<"A", "B">>, <<"A", "C">>, <<"A", "D">>, <<"B", "D">>, <<"C", "D">>,
    <<"A", "A">>, <<"D", "B">>>>

BuVariants ==
  <<[label |-> Undefined, style |-> "solid"],
    [label |-> Undefined, style |-> "dotted"],
    [label |-> "yes", style |-> "solid"]>>

BuLayer(id) == IF id = "A" THEN 0 ELSE IF id = "D" THEN 2 ELSE 1
BuCross(id) == IF id = "B" THEN Px(0) ELSE IF id = "C" THEN Px(200) ELSE Px(100)

\* The flow coordinate of a layer or of any other offset along the flow, of
\* an extent len: it grows with the flow in TD and LR, against it in BT, RL.
BuFlow(direction, at, len) ==
  IF direction \in {"BT", "RL"} THEN Px(240) - at - len ELSE at

BuBox(direction, id, cross, crossLen, flow, flowLen) ==
  IF IsHorizontal(direction)
  THEN [id |-> id, x |-> BuFlow(direction, flow, flowLen), y |-> cross,
        width |-> flowLen, height |-> crossLen]
  ELSE [id |-> id, x |-> cross, y |-> BuFlow(direction, flow, flowLen),
        width |-> crossLen, height |-> flowLen]

BuNode(direction, id) ==
  BuBox(direction, id, BuCross(id), Px(40), Px(100) * BuLayer(id), Px(40))

BuNodes(direction) ==
  <<BuNode(direction, "A"), BuNode(direction, "B"),
    BuNode(direction, "C"), BuNode(direction, "D")>>

BuGroup(direction) ==
  [BuBox(direction, "G1", Px(0) - Px(20), Px(280), Px(60), Px(120))
     EXCEPT !.id = "G1"] @@ [children |-> <<>>]

BuEdge(direction, pair, variant) ==
  LET points == <<Centre(BuNode(direction, pair[1])), Centre(BuNode(direction, pair[2]))>>
      e == [source |-> pair[1], target |-> pair[2],
            label |-> variant.label, style |-> variant.style]
  IN e @@ [points |-> points,
           hasLabelPosition |-> HasLabel(e),
           labelPosition |-> IF HasLabel(e)
                             THEN [x |-> (points[1].x + points[2].x) \div 2,
                                   y |-> (points[1].y + points[2].y) \div 2,
                                   isNaN |-> FALSE]
                             ELSE NoLabelPosition]

InitBundle ==
  /\ pc = "bundle"
  /\ \E direction \in {"TD", "LR", "BT", "RL"} :
     \E withGroup \in BOOLEAN :
     \E chosen \in {S \in SUBSET (1..Len(BuPairs)) : Cardinality(S) <= BuMaxEdges} :
     \E variant \in [chosen -> 1..Len(BuVariants)] :
       LET order == SelectSeqIdx([k \in 1..Len(BuPairs) |-> k], LAMBDA k : k \in chosen, 1)
       IN /\ graph = EmptyGraph(direction)
          /\ posNodes = BuNodes(direction)
          /\ posGroups = IF withGroup THEN <<BuGroup(direction)>> ELSE <<>>
          /\ posEdges = [k \in 1..Len(order) |->
                           BuEdge(direction, BuPairs[order[k]], BuVariants[variant[order[k]]])]
  /\ elk = NoElk
  /\ opts = DEFAULTS
  /\ pre = NoPre /\ info = NoInfo /\ canvas = NoCanvas
  /\ runtime = NoRuntime /\ wire = NoResult /\ answer = NoResult
  /\ returned = NoResult
  /\ globals = SettledGlobals

\* The pass that rewrote each edge: membership of the set "processed" of the
\* fan-out loop, else of a bundle of the fan-in loop.
BundleTags(edges, nodes, direction) ==
  [k \in 1..Len(edges) |->
     IF k \in Range(FanOutBundle(edges, nodes, direction, edges[k].source))
     THEN "fanout"
     ELSE IF k \in Range(FanInBundle(edges, nodes, direction, edges[k].target))
     THEN "fanin"
     ELSE "none"]

\* The bundleEdgePaths call of elkToPositioned.
Bundle ==
  /\ pc = "bundle"
  /\ posEdges' = BundleEdgePaths(posEdges, posNodes, posGroups, graph.direction)
  /\ info' = [pass |-> "bundle",
              tags |-> BundleTags(posEdges, posNodes, graph.direction)]
  /\ pre' = [nodes |-> posNodes, edges |-> posEdges]
  /\ pc' = "bounds"
  /\ UNCHANGED <<graph, opts, elk, posNodes, posGroups, canvas, runtime, wire, answer, returned,
                 globals>>

NextBundle == Bundle

SpecBundle == InitBundle /\ [][NextBundle]_vars

(***************************************************************************)
(* Claims about the bundling pass.                                         *)
(***************************************************************************)
Bundled == pc = "bounds" /\ info.pass = "bundle"

SelfLoop(e) == e.source = e.target

\* Edge j agrees with edge k: the same style, and no label.
AgreesWith(j, k) ==
  ~HasLabel(pre.edges[j]) /\ pre.edges[j].style = pre.edges[k].style

AxisAligned(a, b) == a.x = b.x \/ a.y = b.y

\* C8: the edges rewritten by one fan-out bundle have the same first and
\* second point, those rewritten by one fan-in bundle the same third and
\* fourth point, and every rewritten edge has exactly 4 points whose 3
\* segments are each horizontal or vertical.
C8_SharedTrunk ==
  Bundled =>
    /\ \A k, j \in 1..Len(posEdges) :
         /\ (/\ info.tags[k] = "fanout" /\ info.tags[j] = "fanout"
             /\ posEdges[k].source = posEdges[j].source)
              => /\ posEdges[k].points[1] = posEdges[j].points[1]
                 /\ posEdges[k].points[2] = posEdges[j].points[2]
         /\ (/\ info.tags[k] = "fanin" /\ info.tags[j] = "fanin"
             /\ posEdges[k].target = posEdges[j].target)
              => /\ posEdges[k].points[3] = posEdges[j].points[3]
                 /\ posEdges[k].points[4] = posEdges[j].points[4]
    /\ \A k \in 1..Len(posEdges) :
         info.tags[k] # "none" =>
           /\ Len(posEdges[k].points) = 4
           /\ \A i \in 1..3 :
                AxisAligned(posEdges[k].points[i], posEdges[k].points[i + 1])

\* Two edges of one fan-out bundle to targets in different layers share the
\* trunk and part after it.
C8_Witness ==
  /\ Bundled
  /\ \E k, j \in 1..Len(posEdges) :
       /\ k # j
       /\ info.tags[k] = "fanout" /\ info.tags[j] = "fanout"
       /\ posEdges[k].source = posEdges[j].source
       /\ BuLayer(posEdges[k].target) # BuLayer(posEdges[j].target)
       /\ posEdges[k].points[2] = posEdges[j].points[2]
       /\ posEdges[k].points[4] # posEdges[j].points[4]

(***************************************************************************)
(* LayoutSolver: elkLayoutSync.  The solver is a black box that returns    *)
(* the tree it was given with a position and a size on every node,         *)
(* relative to the parent, and a routed section on the edges.  Of its      *)
(* possible results the model takes: two arrangements of the children of   *)
(* a container (one after another along the flow, or abreast with a small  *)
(* stagger along the flow), and per edge one of the routes of LyRoutes.    *)
(***************************************************************************)
LyRoutes == {"none", "direct", "bent"}

LyArrangements == {"stacked", "abreast"}

\* elk.padding: of the root opts.padding on every side, of a group
\* [top=44,left=16,bottom=16,right=16].
RootPadding(o) ==
  [top |-> o.padding, left |-> o.padding, bottom |-> o.padding, right |-> o.padding]
GroupPadding == [top |-> Px(44), left |-> Px(16), bottom |-> Px(16), right |-> Px(16)]

\* The extent of the first k boxes laid one after another with a gap.
RECURSIVE RunLength(_, _, _, _)
RunLength(kids, k, alongX, gap) ==
  IF k = 0 THEN 0
  ELSE RunLength(kids, k - 1, alongX, gap)
       + (IF alongX THEN kids[k].width ELSE kids[k].height) + gap

\* A node with its size, and its children placed inside it.
RECURSIVE Place(_, _, _, _)
Place(node, dir, pad, arr) ==
  IF node.isLeaf
  THEN node @@ [x |-> 0, y |-> 0, width |-> Px(60), height |-> Px(36)]
  ELSE LET d == IF Truthy(node.direction) THEN node.direction ELSE dir
           kids == [k \in 1..Len(node.children) |->
                      Place(node.children[k], d, GroupPadding, arr)]
           alongX == IsHorizontal(d) = (arr = "stacked")
           gap == Px(40)
           Stagger(k) == IF arr = "stacked" THEN 0 ELSE Px(10) * ((k - 1) % 2)
           main(k) == RunLength(kids, k - 1, alongX, gap)
           placed == [k \in 1..Len(kids) |->
                        IF alongX
                        THEN [kids[k] EXCEPT !.x = pad.left + main(k),
                                             !.y = pad.top + Stagger(k)]
                        ELSE [kids[k] EXCEPT !.x = pad.left + Stagger(k),
                                             !.y = pad.top + main(k)]]
           right == MaxOfSeq(<<pad.left>> \o [k \in 1..Len(placed) |->
                                               placed[k].x + placed[k].width])
           bottom == MaxOfSeq(<<pad.top>> \o [k \in 1..Len(placed) |->
                                               placed[k].y + placed[k].height])
       IN [node EXCEPT !.children = placed]
          @@ [x |-> 0, y |-> 0, width |-> right + pad.right, height |-> bottom + pad.bottom]

\* Where an edge meets the box or port called name, in the coordinates of
\* the container: the centre of a box, the middle of the left side of the
\* group that owns a port.  Empty when the container holds no such thing.
RECURSIVE FindAnchor(_, _)
FindAnchor(node, name) ==
  Flatten([k \in 1..Len(node.children) |->
    LET c == node.children[k]
        inner == FindAnchor(c, name)
    IN IF c.id = name THEN <<Pt(c.x + c.width \div 2, c.y + c.height \div 2)>>
       ELSE IF name \in Range(c.ports) THEN <<Pt(c.x, c.y + c.height \div 2)>>
       ELSE [j \in 1..Len(inner) |-> Pt(inner[j].x + c.x, inner[j].y + c.y)]])

Anchor(container, name) ==
  IF name \in Range(container.ports) THEN <<Pt(0, container.height \div 2)>>
  ELSE FindAnchor(container, name)

\* The solver rejects a graph with an edge end that names nothing in it.
RECURSIVE Resolvable(_)
Resolvable(node) ==
  /\ \A k \in 1..Len(node.edges) :
       /\ Anchor(node, node.edges[k].sources[1]) # <<>>
       /\ Anchor(node, node.edges[k].targets[1]) # <<>>
  /\ \A k \in 1..Len(node.children) : Resolvable(node.children[k])

RouteEdge(container, e, kind) ==
  LET a == Anchor(container, e.sources[1])[1]
      b == Anchor(container, e.targets[1])[1]
  IN e @@ [sections |->
             IF kind = "none" THEN <<>>
             ELSE <<[startPoint |-> a,
                     bendPoints |-> IF kind = "bent" THEN <<Pt(a.x, b.y)>> ELSE <<>>,
                     endPoint |-> b]>>,
           labels |-> <<>>]

\* The placed tree with every edge routed; all solver edges of one graph edge
\* take the route chosen for it.
RECURSIVE Routed(_, _)
Routed(node, route) ==
  [node EXCEPT
     !.children = [k \in 1..Len(node.children) |-> Routed(node.children[k], route)],
     !.edges = [k \in 1..Len(node.edges) |->
                  RouteEdge(node, node.edges[k],
                    route[ParseInt(SubSeq(node.edges[k].id, 2, Len(node.edges[k].id))).value])]]

ElkLayoutSync(tree, o, arr, route) ==
  Routed(Place(tree, tree.direction, RootPadding(o), arr), route)

(***************************************************************************)
(* ShapeClipper and the final bounds of elkToPositioned.                   *)
(***************************************************************************)

\* clipEdgeToShape trims the first or last point of a polyline to the true
\* boundary of the node's shape.  Every node of the model is a rectangle,
\* whose boundary is its box: the polyline is returned as it is.
ClipEdgeToShape(points, node, isSourceEnd) == points

ClipEdge(edge, nodes) ==
  LET atSource == IF HasNode(nodes, edge.source)
                  THEN ClipEdgeToShape(edge.points, NodeById(nodes, edge.source), TRUE)
                  ELSE edge.points
  IN [edge EXCEPT !.points =
        IF HasNode(nodes, edge.target)
        THEN ClipEdgeToShape(atSource, NodeById(nodes, edge.target), FALSE)
        ELSE atSource]

\* ARROW_HEAD.width, the fixed arrowhead margin.
ARROW_HEAD_WIDTH == 8

\* The canvas: the solver's dimensions, grown to hold every edge point plus
\* the arrowhead margin and DEFAULTS.padding, and every label anchor plus
\* 60 x 20 and the padding.  Math.max with a NaN anchor yields NaN.
FinalBounds(elkResult, edges) ==
  LET margin == Px(ARROW_HEAD_WIDTH) + DEFAULTS.padding
      pts == Flatten([k \in 1..Len(edges) |-> edges[k].points])
      lps == SelectSeqIdx([k \in 1..Len(edges) |-> edges[k].labelPosition],
                          LAMBDA k : edges[k].hasLabelPosition, 1)
  IN [width |-> MaxOfSeq(<<elkResult.width>>
                   \o [k \in 1..Len(pts) |-> pts[k].x + margin]
                   \o [k \in 1..Len(lps) |-> lps[k].x + Px(60) + DEFAULTS.padding]),
      height |-> MaxOfSeq(<<elkResult.height>>
                   \o [k \in 1..Len(pts) |-> pts[k].y + margin]
                   \o [k \in 1..Len(lps) |-> lps[k].y + Px(20) + DEFAULTS.padding]),
      isNaN |-> \E k \in 1..Len(lps) : lps[k].isNaN]

(***************************************************************************)
(* Specification of a whole layout call, layoutGraphSync: translate,       *)
(* solve, extract and assemble, align, bundle, clip and bound.  The graph  *)
(* has two nodes, the groups of one of LyForests and up to LyMaxEdges      *)
(* edges.                                                                  *)
(***************************************************************************)
LyMaxEdges == 2

LyDirections == {"TD", "LR"}

LySources == {"A", "x_in_y"}

LyGroup(id, nodeIds, children, direction) ==
  [id |-> id, nodeIds |-> nodeIds, children |-> children, direction |-> direction]

\* No group; one group, without and with a direction of its own; two sibling
\* groups, without and with directions; a group with a direction nested in
\* one without.
LyForests(s) ==
  {<<>>,
   <<LyGroup("G1", <<s>>, <<>>, Undefined)>>,
   <<LyGroup("G1", <<s>>, <<>>, "LR")>>,
   <<LyGroup("G1", <<s>>, <<>>, Undefined), LyGroup("G2", <<"B">>, <<>>, Undefined)>>,
   <<LyGroup("G1", <<s>>, <<>>, "LR"), LyGroup("G2", <<"B">>, <<>>, "LR")>>,
   <<LyGroup("G1", <<>>, <<LyGroup("G2", <<s>>, <<>>, "LR")>>, Undefined)>>}

\* Edges between the two nodes, and one that ends at the id of a group.
LyEdgePool(s) ==
  {[source |-> s, target |-> "B", label |-> Undefined, style |-> "solid"],
   [source |-> "B", target |-> s, label |-> Undefined, style |-> "solid"],
   [source |-> s, target |-> "G1", label |-> Undefined, style |-> "solid"]}

\* The caller's options: none, no padding, a layer spacing of 10 px.
LyOptions ==
  {DEFAULTS, [DEFAULTS EXCEPT !.padding = Px(0)], [DEFAULTS EXCEPT !.layerSpacing = Px(10)]}

InitLayout ==
  /\ pc = "start"
  /\ \E s \in LySources :
       graph \in {[direction |-> d, nodes |-> <<s, "B">>, edges |-> es, subgraphs |-> f] :
                    d \in LyDirections,
                    es \in SeqsUpTo(LyEdgePool(s), LyMaxEdges),
                    f \in LyForests(s)}
  /\ opts \in LyOptions
  /\ elk = NoElk
  /\ posNodes = <<>> /\ posEdges = <<>> /\ posGroups = <<>>
  /\ pre = NoPre /\ info = NoInfo /\ canvas = NoCanvas
  /\ runtime = NoRuntime /\ wire = NoResult /\ answer = NoResult
  /\ returned = NoResult
  /\ globals = SettledGlobals

\* The answers the dispatcher can give during saveDispatch: none at all, an
\* error, or the laid-out graph.
NoAnswer == [delivered |-> FALSE, error |-> "", data |-> NoElk]
ErrorAnswer == [delivered |-> TRUE, error |-> "UnsupportedGraphException", data |-> NoElk]
DataAnswer(result) == [delivered |-> TRUE, error |-> "", data |-> result]

\* The interceptor put in place of rawWorker.onmessage: the locals error and
\* result after the dispatch ("" and NoElk stand for undefined).
OnMessage(reply) ==
  IF ~reply.delivered THEN [error |-> "", result |-> NoElk]
  ELSE IF reply.error # "" THEN [error |-> reply.error, result |-> NoElk]
  ELSE [error |-> "", result |-> reply.data]

\* A wrapper that hands back whatever it holds.
ElkLayoutSyncReturnUnchecked(received) ==
  [threw |-> FALSE, value |-> received.result]

\* The end of elkLayoutSync: throw the error, throw when there is no result,
\* return the result.
ElkLayoutSyncReturn(received) ==
  IF received.error # "" THEN [threw |-> TRUE, message |-> received.error]
  ELSE IF received.result = NoElk
    THEN [threw |-> TRUE, message |-> "ELK layout did not return synchronously"]
  ELSE [threw |-> FALSE, value |-> received.result]

\* What the dispatcher answers for the graph: an error for a graph it cannot
\* resolve, a layout otherwise, or nothing before saveDispatch returns.
DispatchAnswers ==
  {NoAnswer}
    \cup (IF Resolvable(Place(elk, elk.direction, RootPadding(opts), "stacked"))
          THEN {} ELSE {ErrorAnswer})
    \cup {DataAnswer(ElkLayoutSync(elk, opts, arr, route)) :
            <<arr, route>> \in
              {ar \in LyArrangements \X [0..(Len(graph.edges) - 1) -> LyRoutes] :
                 Resolvable(Place(elk, elk.direction, RootPadding(opts), ar[1]))}}

\* elkLayoutSync returns a layout.
Solve ==
  /\ pc = "translated"
  /\ \E reply \in DispatchAnswers :
       LET out == ElkLayoutSyncReturn(OnMessage(reply))
       IN /\ ~out.threw
          /\ elk' = out.value
          /\ info' = [pass |-> "solve", delivered |-> reply.delivered,
                      error |-> reply.error, data |-> reply.data # NoElk]
  /\ pc' = "solved"
  /\ UNCHANGED <<graph, opts, posNodes, posEdges, posGroups, pre, canvas, runtime, wire, answer, returned,
                 globals>>

\* elkLayoutSync throws: layoutGraphSync does not reach elkToPositioned and
\* the exception goes to the caller.
SolveFails ==
  /\ pc = "translated"
  /\ \E reply \in DispatchAnswers :
       LET out == ElkLayoutSyncReturn(OnMessage(reply))
       IN /\ out.threw
          /\ returned' = out
          /\ info' = [pass |-> "solve", delivered |-> reply.delivered,
                      error |-> reply.error, data |-> reply.data # NoElk]
  /\ pc' = "failed"
  /\ UNCHANGED <<graph, opts, elk, posNodes, posEdges, posGroups, pre, canvas, runtime, wire, answer,
                 globals>>

\* elkToPositioned up to the call of alignLayerNodes.
Extract ==
  /\ pc = "solved"
  /\ LET subgraphIds == UNION {CollectAllSubgraphIds(graph.subgraphs[k]) :
                                 k \in 1..Len(graph.subgraphs)}
         r == ExtractNodesAndGroups(elk, graph, subgraphIds, 0, 0)
         margins == ComputeMargins(r.groups)
     IN /\ posNodes' = r.nodes
        /\ posGroups' = r.groups
        /\ posEdges' = ExtractEdgesRecursively(elk, graph, margins)
        /\ info' = [pass |-> "extract", segs |-> CollectEdgeSegments(elk),
                    margins |-> margins]
  /\ pre' = NoPre
  /\ pc' = "align"
  /\ UNCHANGED <<graph, opts, elk, canvas, runtime, wire, answer, returned, globals>>

\* elkToPositioned from the clipping loop to the return.
Finish ==
  /\ pc = "bounds"
  /\ LET clipped == [k \in 1..Len(posEdges) |-> ClipEdge(posEdges[k], posNodes)]
     IN /\ posEdges' = clipped
        /\ canvas' = FinalBounds(elk, clipped)
  /\ pc' = "done"
  /\ UNCHANGED <<graph, opts, elk, posNodes, posGroups, pre, info, runtime, wire, answer, returned,
                 globals>>

NextLayout ==
  \/ Translate
  \/ Solve
  \/ SolveFails
  \/ Extract
  \/ Align
  \/ Bundle
  \/ Finish

SpecLayout == InitLayout /\ [][NextLayout]_vars

\* The same call for the graphs with at most one edge.
InitSolve ==
  /\ pc = "start"
  /\ \E s \in LySources :
       graph \in {[direction |-> d, nodes |-> <<s, "B">>, edges |-> es, subgraphs |-> f] :
                    d \in LyDirections,
                    es \in {<<>>} \cup {<<e>> : e \in LyEdgePool(s)},
                    f \in LyForests(s)}
  /\ opts \in LyOptions
  /\ elk = NoElk
  /\ posNodes = <<>> /\ posEdges = <<>> /\ posGroups = <<>>
  /\ pre = NoPre /\ info = NoInfo /\ canvas = NoCanvas
  /\ runtime = NoRuntime /\ wire = NoResult /\ answer = NoResult
  /\ returned = NoResult
  /\ globals = SettledGlobals

SpecSolve == InitSolve /\ [][NextLayout]_vars

(***************************************************************************)
(* Claims about a whole layout call.                                       *)
(***************************************************************************)
Extracted == pc = "align" /\ info.pass = "extract"

Done == pc = "done"

\* The child of the solved root with the given id.
ElkChild(id) ==
  elk.children[CHOOSE j \in 1..Len(elk.children) : elk.children[j].id = id]

TopLevelGroupIds == {graph.subgraphs[j].id : j \in 1..Len(graph.subgraphs)}

\* The points the solver gave the edge of a container that satisfies Match,
\* in absolute coordinates.
SolverPoints(container, offsetX, offsetY, Match(_)) ==
  SectionPoints(container.edges[CHOOSE j \in 1..Len(container.edges) :
                                  Match(container.edges[j])],
                offsetX, offsetY)

\* C3: for an edge from a node of one top-level group to a node of another
\* under SEPARATE, extraction tags the node-to-port segment as outgoing and
\* the port-to-node segment as incoming, and the assembled point list is the
\* outgoing points, then the external points, then the incoming points
\* (each joint once), whatever the identifiers are.
C3_SegmentsInOrder ==
  Extracted =>
    \A k \in 1..Len(info.segs.order) :
      LET i == info.segs.order[k]
          e == graph.edges[i + 1]
          sg == SourceSubgraph(graph, i)
          tg == TargetSubgraph(graph, i)
          src == ElkChild(sg)
          tgt == ElkChild(tg)
          out == SolverPoints(src, src.x, src.y,
                   LAMBDA se : se.id = InternalEdgeId(i) /\ se.sources[1] = e.source)
          ext == SolverPoints(elk, 0, 0, LAMBDA se : se.id = EdgeId(i))
          inc == SolverPoints(tgt, tgt.x, tgt.y,
                   LAMBDA se : se.id = InternalEdgeId(i) /\ se.targets[1] = e.target)
          all == out \o Tail(ext) \o Tail(inc)
      IN (/\ elk.hierarchyHandling = "SEPARATE"
          /\ sg \in TopLevelGroupIds /\ tg \in TopLevelGroupIds /\ sg # tg
          /\ ext # <<>>)
         => /\ info.segs.seg[i].outgoing.present
            /\ info.segs.seg[i].outgoing.points = out
            /\ info.segs.seg[i].incoming.present
            /\ info.segs.seg[i].incoming.points = inc
            /\ ~NeedsWork(all) => posEdges[k].points = all

\* C4: the canvas [0, width] x [0, height] of the returned graph holds the
\* box of every node, every point of every edge and every label anchor.
C4_CanvasEnclosesAll ==
  Done =>
    LET Inside(x, y) == /\ 0 <= x /\ x <= canvas.width
                        /\ 0 <= y /\ y <= canvas.height
    IN /\ ~canvas.isNaN
       /\ \A k \in 1..Len(posNodes) :
            /\ Inside(posNodes[k].x, posNodes[k].y)
            /\ Inside(posNodes[k].x + posNodes[k].width,
                      posNodes[k].y + posNodes[k].height)
       /\ \A k \in 1..Len(posEdges) :
            /\ \A j \in 1..Len(posEdges[k].points) :
                 Inside(posEdges[k].points[j].x, posEdges[k].points[j].y)
            /\ posEdges[k].hasLabelPosition =>
                 Inside(posEdges[k].labelPosition.x, posEdges[k].labelPosition.y)

\* C5: every edge of the returned graph has at least 2 points.
C5_AtLeastTwoPoints ==
  Done => \A k \in 1..Len(posEdges) : Len(posEdges[k].points) >= 2

\* C6: the source and the target of every edge of the returned graph are
\* nodes of the returned graph.
C6_EndpointsAreNodes ==
  Done =>
    \A k \in 1..Len(posEdges) :
      /\ HasNode(posNodes, posEdges[k].source)
      /\ HasNode(posNodes, posEdges[k].target)

(***************************************************************************)
(* Interchange contract ("Rust type contract adapter" of types.ts).        *)
(*                                                                         *)
(* JavaScript values carry their type, so that the validators can ask for  *)
(* it: [t |-> "string", s], [t |-> "number", n, finite], [t |-> "boolean", *)
(* b], undefined, null, arrays [t |-> "array", items], plain objects       *)
(* [t |-> "object", props] and Maps [t |-> "map", entries].  props and     *)
(* entries are sequences of <<key, value>> in iteration order.             *)
(*                                                                         *)
(* A subgraph or group with its descendants is kept as an outline          *)
(* [t |-> "tree", rows]: the elements in pre-order, each with its depth    *)
(* below the root and its own fields, the children array being the rows    *)
(* that follow one level deeper.  Outlines and ordered trees correspond    *)
(* one to one, and a tree 257 levels deep is an ordinary sequence.         *)
(***************************************************************************)
JUndefined == [t |-> "undefined"]
JNull == [t |-> "null"]
JBool(b) == [t |-> "boolean", b |-> b]
JNum(n) == [t |-> "number", n |-> n, finite |-> TRUE]
JNaN == [t |-> "number", n |-> 0, finite |-> FALSE]
JStr(s) == [t |-> "string", s |-> s]
JArr(items) == [t |-> "array", items |-> items]
JObj(props) == [t |-> "object", props |-> props]
JMap(entries) == [t |-> "map", entries |-> entries]
JTree(rows) == [t |-> "tree", rows |-> rows]

\* One element of an outline; kids tells whether its children field is an
\* array ("array") or is missing ("missing").
Row(depth, obj, kids) == [depth |-> depth, obj |-> obj, kids |-> kids]

KeysOf(props) == [i \in 1..Len(props) |-> props[i][1]]
ValuesOf(props) == [i \in 1..Len(props) |-> props[i][2]]

HasProp(o, key) == \E i \in 1..Len(o.props) : o.props[i][1] = key

\* o[key] / o.key: undefined when o has no such property.
Get(o, key) ==
  IF HasProp(o, key)
  THEN o.props[CHOOSE i \in 1..Len(o.props) : o.props[i][1] = key][2]
  ELSE JUndefined

\* /^\d+$/.test(key)
IsIntegerLikeKey(key) ==
  Len(key) > 0 /\ \A i \in 1..Len(key) : IsDigit(SubSeq(key, i, i))

\* The keys a JavaScript object iterates first, in ascending numeric order:
\* canonical numeric strings (no leading zero).
IsArrayIndex(key) ==
  IsIntegerLikeKey(key) /\ (Len(key) = 1 \/ SubSeq(key, 1, 1) # "0")

\* record[key] = value on an object made by {}: "__proto__" goes to the
\* setter of Object.prototype and makes no own property; an existing key
\* keeps its place; an array index is put among the array indices in numeric
\* order, ahead of every other key; any other key is appended.
ObjSet(props, key, value) ==
  IF key = "__proto__" THEN props
  ELSE IF \E i \in 1..Len(props) : props[i][1] = key
  THEN [props EXCEPT ![CHOOSE i \in 1..Len(props) : props[i][1] = key] = <<key, value>>]
  ELSE IF IsArrayIndex(key)
  THEN LET before == Cardinality({i \in 1..Len(props) :
                        /\ IsArrayIndex(props[i][1])
                        /\ ParseInt(props[i][1]).value < ParseInt(key).value})
       IN SubSeq(props, 1, before) \o <<(<<key, value>>)>>
            \o SubSeq(props, before + 1, Len(props))
  ELSE Append(props, <<key, value>>)

\* A call either returns a value or throws an error with a message.
Ok(v) == [threw |-> FALSE, value |-> v]
Threw(message) == [threw |-> TRUE, message |-> message]

\* The first error thrown by a sequence of evaluations, if any.
FirstThrown(outcomes) ==
  outcomes[CHOOSE k \in 1..Len(outcomes) :
             outcomes[k].threw /\ \A j \in 1..(k - 1) : ~outcomes[j].threw]

AnyThrown(outcomes) == \E k \in 1..Len(outcomes) : outcomes[k].threw

DIRECTION_VALUES == {"TD", "TB", "LR", "BT", "RL"}
NODE_SHAPE_VALUES ==
  {"rectangle", "rounded", "diamond", "stadium", "circle", "subroutine",
   "doublecircle", "hexagon", "cylinder", "asymmetric", "trapezoid",
   "trapezoid-alt", "state-start", "state-end"}
EDGE_STYLE_VALUES == {"solid", "dotted", "thick"}
MAX_SUBGRAPH_CONTRACT_DEPTH == 256
MAX_GROUP_CONTRACT_DEPTH == 256

\* The messages of the errors and of the fallback reasons, by what they say.
MsgIntegerLikeKey == "integer-like map key"
MsgSubgraphDepth == "subgraph depth over limit"
MsgRuntimeUnavailable == "runtime unavailable"
MsgInvalidStructure == "returned structure invalid"
MsgMermaidGraphMissing == "mermaidGraph missing"
MsgPositionedGraphMissing == "positionedGraph missing"

\* `Rust 初始化失败：...` and `Rust 契约校验失败：...`
InitFailed(detail) == [prefix |-> "Rust init failed", detail |-> detail]
ContractFailed(detail) == [prefix |-> "Rust contract validation failed", detail |-> detail]

IsDirection(v) == v.t = "string" /\ v.s \in DIRECTION_VALUES
IsNodeShape(v) == v.t = "string" /\ v.s \in NODE_SHAPE_VALUES
IsEdgeStyle(v) == v.t = "string" /\ v.s \in EDGE_STYLE_VALUES
IsFiniteNumber(v) == v.t = "number" /\ v.finite

\* typeof value === 'object' && value !== null && !Array.isArray(value)
IsPlainObject(v) == v.t \in {"object", "tree", "map"}

\* Object.values / Object.keys: a Map has no own enumerable properties.
OwnProps(v) == IF v.t = "object" THEN v.props ELSE <<>>

IsStringRecord(v) ==
  /\ IsPlainObject(v)
  /\ \A i \in 1..Len(OwnProps(v)) : OwnProps(v)[i][2].t = "string"

HasIntegerLikeRecordKey(record) ==
  \E i \in 1..Len(OwnProps(record)) : IsIntegerLikeKey(OwnProps(record)[i][1])

RECURSIVE MapToRecordFrom(_, _, _)
MapToRecordFrom(entries, i, props) ==
  IF i > Len(entries) THEN Ok(JObj(props))
  ELSE IF IsIntegerLikeKey(entries[i][1]) THEN Threw(MsgIntegerLikeKey)
  ELSE MapToRecordFrom(entries, i + 1, ObjSet(props, entries[i][1], entries[i][2]))

MapToRecord(map) == MapToRecordFrom(map.entries, 1, <<>>)

RecordEntries(record) == record.props

RecordToMap(record) == JMap(RecordEntries(record))

\* The fields the clone of one subgraph is given: id, label, a copy of
\* nodeIds, and direction when it is not undefined.
SubgraphFields(o) ==
  JObj(<< <<"id", Get(o, "id")>>, <<"label", Get(o, "label")>>,
          <<"nodeIds", JArr(Get(o, "nodeIds").items)>> >>
       \o (IF Get(o, "direction") # JUndefined
           THEN <<(<<"direction", Get(o, "direction")>>)>> ELSE <<>>))

\* Every element gets a frame with its depth; a frame deeper than the limit
\* throws when it is popped; otherwise each element is copied in place.
CloneMermaidSubgraphTree(root) ==
  IF \E i \in 1..Len(root.rows) : root.rows[i].depth > MAX_SUBGRAPH_CONTRACT_DEPTH
  THEN Threw(MsgSubgraphDepth)
  ELSE Ok(JTree([i \in 1..Len(root.rows) |->
                   Row(root.rows[i].depth, SubgraphFields(root.rows[i].obj), "array")]))

ToMermaidSubgraphContract(subgraph) == CloneMermaidSubgraphTree(subgraph)
FromMermaidSubgraphContract(subgraph) == CloneMermaidSubgraphTree(subgraph)

\* The edge copied by both directions of the conversion.
CopyMermaidEdge(edge) ==
  JObj(<< <<"source", Get(edge, "source")>>, <<"target", Get(edge, "target")>>,
          <<"style", Get(edge, "style")>>,
          <<"hasArrowStart", Get(edge, "hasArrowStart")>>,
          <<"hasArrowEnd", Get(edge, "hasArrowEnd")>> >>
       \o (IF Get(edge, "label") # JUndefined
           THEN <<(<<"label", Get(edge, "label")>>)>> ELSE <<>>))

\* entries.map(([name, styles]) => [name, { ...styles }])
SpreadValues(entries) ==
  [i \in 1..Len(entries) |-> <<entries[i][1], JObj(OwnProps(entries[i][2]))>>]

MapSeq(items, Op(_)) == [i \in 1..Len(items) |-> Op(items[i])]

ValuesOfOutcomes(outcomes) == [i \in 1..Len(outcomes) |-> outcomes[i].value]

ToMermaidGraphContract(g) ==
  LET nodes == MapToRecord(Get(g, "nodes"))
      subgraphs == MapSeq(Get(g, "subgraphs").items, ToMermaidSubgraphContract)
      classDefs == MapToRecord(JMap(SpreadValues(Get(g, "classDefs").entries)))
      classAssignments == MapToRecord(Get(g, "classAssignments"))
      nodeStyles == MapToRecord(JMap(SpreadValues(Get(g, "nodeStyles").entries)))
      evaluated == <<nodes>> \o subgraphs \o <<classDefs, classAssignments, nodeStyles>>
  IN IF AnyThrown(evaluated) THEN FirstThrown(evaluated)
     ELSE Ok(JObj(<< <<"direction", Get(g, "direction")>>,
                     <<"nodes", nodes.value>>,
                     <<"edges", JArr(MapSeq(Get(g, "edges").items, CopyMermaidEdge))>>,
                     <<"subgraphs", JArr(ValuesOfOutcomes(subgraphs))>>,
                     <<"classDefs", classDefs.value>>,
                     <<"classAssignments", classAssignments.value>>,
                     <<"nodeStyles", nodeStyles.value>> >>))

FromMermaidGraphContract(contract) ==
  LET subgraphs == MapSeq(Get(contract, "subgraphs").items, FromMermaidSubgraphContract)
  IN IF AnyThrown(subgraphs) THEN FirstThrown(subgraphs)
     ELSE Ok(JObj(<< <<"direction", Get(contract, "direction")>>,
                     <<"nodes", RecordToMap(Get(contract, "nodes"))>>,
                     <<"edges", JArr(MapSeq(Get(contract, "edges").items, CopyMermaidEdge))>>,
                     <<"subgraphs", JArr(ValuesOfOutcomes(subgraphs))>>,
                     <<"classDefs",
                       JMap(SpreadValues(RecordEntries(Get(contract, "classDefs"))))>>,
                     <<"classAssignments", RecordToMap(Get(contract, "classAssignments"))>>,
                     <<"nodeStyles",
                       JMap(SpreadValues(RecordEntries(Get(contract, "nodeStyles"))))>> >>))

\* The group and its descendants copied by plain recursion: no depth is
\* looked at.
GroupFields(o) ==
  JObj(<< <<"id", Get(o, "id")>>, <<"label", Get(o, "label")>>,
          <<"x", Get(o, "x")>>, <<"y", Get(o, "y")>>,
          <<"width", Get(o, "width")>>, <<"height", Get(o, "height")>> >>)

ToPositionedGroupContract(group) ==
  JTree([i \in 1..Len(group.rows) |->
           Row(group.rows[i].depth, GroupFields(group.rows[i].obj), "array")])

FromPositionedGroupContract(group) ==
  JTree([i \in 1..Len(group.rows) |->
           Row(group.rows[i].depth, GroupFields(group.rows[i].obj), "array")])

CopyPoint(point) == JObj(<< <<"x", Get(point, "x")>>, <<"y", Get(point, "y")>> >>)

CopyPositionedNode(node) ==
  JObj(<< <<"id", Get(node, "id")>>, <<"label", Get(node, "label")>>,
          <<"shape", Get(node, "shape")>>,
          <<"x", Get(node, "x")>>, <<"y", Get(node, "y")>>,
          <<"width", Get(node, "width")>>, <<"height", Get(node, "height")>> >>
       \o (IF Get(node, "inlineStyle") # JUndefined
           THEN <<(<<"inlineStyle", JObj(OwnProps(Get(node, "inlineStyle")))>>)>>
           ELSE <<>>))

CopyPositionedEdge(edge) ==
  JObj(<< <<"source", Get(edge, "source")>>, <<"target", Get(edge, "target")>>,
          <<"style", Get(edge, "style")>>,
          <<"hasArrowStart", Get(edge, "hasArrowStart")>>,
          <<"hasArrowEnd", Get(edge, "hasArrowEnd")>>,
          <<"points", JArr(MapSeq(Get(edge, "points").items, CopyPoint))>> >>
       \o (IF Get(edge, "label") # JUndefined
           THEN <<(<<"label", Get(edge, "label")>>)>> ELSE <<>>)
       \o (IF Get(edge, "labelPosition") # JUndefined
           THEN <<(<<"labelPosition", CopyPoint(Get(edge, "labelPosition"))>>)>>
           ELSE <<>>))

ToPositionedGraphContract(g) ==
  JObj(<< <<"width", Get(g, "width")>>, <<"height", Get(g, "height")>>,
          <<"nodes", JArr(MapSeq(Get(g, "nodes").items, CopyPositionedNode))>>,
          <<"edges", JArr(MapSeq(Get(g, "edges").items, CopyPositionedEdge))>>,
          <<"groups", JArr(MapSeq(Get(g, "groups").items, ToPositionedGroupContract))>> >>)

FromPositionedGraphContract(contract) ==
  JObj(<< <<"width", Get(contract, "width")>>, <<"height", Get(contract, "height")>>,
          <<"nodes", JArr(MapSeq(Get(contract, "nodes").items, CopyPositionedNode))>>,
          <<"edges", JArr(MapSeq(Get(contract, "edges").items, CopyPositionedEdge))>>,
          <<"groups",
            JArr(MapSeq(Get(contract, "groups").items, FromPositionedGroupContract))>> >>)

(***************************************************************************)
(* Validation of a payload that came back from the other implementation.   *)
(***************************************************************************)
IsPointContract(v) ==
  IsPlainObject(v) /\ IsFiniteNumber(Get(v, "x")) /\ IsFiniteNumber(Get(v, "y"))

IsMermaidNodeContract(v) ==
  /\ IsPlainObject(v)
  /\ Get(v, "id").t = "string"
  /\ Get(v, "label").t = "string"
  /\ IsNodeShape(Get(v, "shape"))

IsMermaidEdgeContract(v) ==
  /\ IsPlainObject(v)
  /\ Get(v, "source").t = "string"
  /\ Get(v, "target").t = "string"
  /\ IsEdgeStyle(Get(v, "style"))
  /\ Get(v, "hasArrowStart").t = "boolean"
  /\ Get(v, "hasArrowEnd").t = "boolean"
  /\ (Get(v, "label") = JUndefined \/ Get(v, "label").t = "string")

\* The frames the validators walk: the rows of an outline; any other object
\* is a single element with no children array.
RowsOf(v) == IF v.t = "tree" THEN v.rows ELSE <<Row(0, v, "missing")>>

IsStringArray(v) ==
  v.t = "array" /\ \A i \in 1..Len(v.items) : v.items[i].t = "string"

IsMermaidSubgraphContract(v) ==
  /\ IsPlainObject(v)
  /\ \A i \in 1..Len(RowsOf(v)) :
       LET frame == RowsOf(v)[i]
       IN /\ IsPlainObject(frame.obj)
          /\ frame.depth <= MAX_SUBGRAPH_CONTRACT_DEPTH
          /\ Get(frame.obj, "id").t = "string"
          /\ Get(frame.obj, "label").t = "string"
          /\ IsStringArray(Get(frame.obj, "nodeIds"))
          /\ frame.kids = "array"
          /\ (Get(frame.obj, "direction") = JUndefined
              \/ IsDirection(Get(frame.obj, "direction")))

IsRecordOfMermaidNodes(v) ==
  /\ IsPlainObject(v)
  /\ ~HasIntegerLikeRecordKey(v)
  /\ \A i \in 1..Len(OwnProps(v)) : IsMermaidNodeContract(OwnProps(v)[i][2])

IsRecordOfStringRecords(v) ==
  /\ IsPlainObject(v)
  /\ ~HasIntegerLikeRecordKey(v)
  /\ \A i \in 1..Len(OwnProps(v)) : IsStringRecord(OwnProps(v)[i][2])

IsPositionedNodeContract(v) ==
  /\ IsPlainObject(v)
  /\ Get(v, "id").t = "string"
  /\ Get(v, "label").t = "string"
  /\ IsNodeShape(Get(v, "shape"))
  /\ IsFiniteNumber(Get(v, "x"))
  /\ IsFiniteNumber(Get(v, "y"))
  /\ IsFiniteNumber(Get(v, "width"))
  /\ IsFiniteNumber(Get(v, "height"))
  /\ (Get(v, "inlineStyle") = JUndefined \/ IsStringRecord(Get(v, "inlineStyle")))

IsPositionedEdgeContract(v) ==
  /\ IsPlainObject(v)
  /\ Get(v, "source").t = "string"
  /\ Get(v, "target").t = "string"
  /\ IsEdgeStyle(Get(v, "style"))
  /\ Get(v, "hasArrowStart").t = "boolean"
  /\ Get(v, "hasArrowEnd").t = "boolean"
  /\ Get(v, "points").t = "array"
  /\ \A i \in 1..Len(Get(v, "points").items) : IsPointContract(Get(v, "points").items[i])
  /\ (Get(v, "label") = JUndefined \/ Get(v, "label").t = "string")
  /\ (Get(v, "labelPosition") = JUndefined \/ IsPointContract(Get(v, "labelPosition")))

IsPositionedGroupContract(v) ==
  /\ IsPlainObject(v)
  /\ \A i \in 1..Len(RowsOf(v)) :
       LET frame == RowsOf(v)[i]
       IN /\ IsPlainObject(frame.obj)
          /\ frame.depth <= MAX_GROUP_CONTRACT_DEPTH
          /\ Get(frame.obj, "id").t = "string"
          /\ Get(frame.obj, "label").t = "string"
          /\ IsFiniteNumber(Get(frame.obj, "x"))
          /\ IsFiniteNumber(Get(frame.obj, "y"))
          /\ IsFiniteNumber(Get(frame.obj, "width"))
          /\ IsFiniteNumber(Get(frame.obj, "height"))
          /\ frame.kids = "array"

IsMermaidGraphContract(v) ==
  /\ IsPlainObject(v)
  /\ IsDirection(Get(v, "direction"))
  /\ IsRecordOfMermaidNodes(Get(v, "nodes"))
  /\ Get(v, "edges").t = "array"
  /\ \A i \in 1..Len(Get(v, "edges").items) : IsMermaidEdgeContract(Get(v, "edges").items[i])
  /\ Get(v, "subgraphs").t = "array"
  /\ \A i \in 1..Len(Get(v, "subgraphs").items) :
       IsMermaidSubgraphContract(Get(v, "subgraphs").items[i])
  /\ IsRecordOfStringRecords(Get(v, "classDefs"))
  /\ IsStringRecord(Get(v, "classAssignments"))
  /\ ~HasIntegerLikeRecordKey(Get(v, "classAssignments"))
  /\ IsRecordOfStringRecords(Get(v, "nodeStyles"))

IsPositionedGraphContract(v) ==
  /\ IsPlainObject(v)
  /\ IsFiniteNumber(Get(v, "width"))
  /\ IsFiniteNumber(Get(v, "height"))
  /\ Get(v, "nodes").t = "array"
  /\ \A i \in 1..Len(Get(v, "nodes").items) : IsPositionedNodeContract(Get(v, "nodes").items[i])
  /\ Get(v, "edges").t = "array"
  /\ \A i \in 1..Len(Get(v, "edges").items) : IsPositionedEdgeContract(Get(v, "edges").items[i])
  /\ Get(v, "groups").t = "array"
  /\ \A i \in 1..Len(Get(v, "groups").items) :
       IsPositionedGroupContract(Get(v, "groups").items[i])

\* A validator that looks at the outer shape of the payload only.
IsTypesContractPayloadOuterShape(v) ==
  /\ IsPlainObject(v)
  /\ LET hasMermaidGraph == Get(v, "mermaidGraph") # JUndefined
         hasPositionedGraph == Get(v, "positionedGraph") # JUndefined
     IN /\ hasMermaidGraph \/ hasPositionedGraph
        /\ hasMermaidGraph => IsPlainObject(Get(v, "mermaidGraph"))
        /\ hasPositionedGraph => IsPlainObject(Get(v, "positionedGraph"))

IsTypesContractPayload(v) ==
  /\ IsPlainObject(v)
  /\ LET hasMermaidGraph == Get(v, "mermaidGraph") # JUndefined
         hasPositionedGraph == Get(v, "positionedGraph") # JUndefined
     IN /\ hasMermaidGraph \/ hasPositionedGraph
        /\ hasMermaidGraph => IsMermaidGraphContract(Get(v, "mermaidGraph"))
        /\ hasPositionedGraph => IsPositionedGraphContract(Get(v, "positionedGraph"))

\* String.prototype.toLowerCase on the letters that occur.
UpperLetters == "ABCDEFGHIJKLMNOPQRSTUVWXYZ"
LowerLetters == "abcdefghijklmnopqrstuvwxyz"

RECURSIVE ToLowerCase(_, _)
ToLowerCase(str, i) ==
  IF i > Len(str) THEN ""
  ELSE LET c == SubSeq(str, i, i)
       IN (IF \E k \in 1..26 : SubSeq(UpperLetters, k, k) = c
           THEN SubSeq(LowerLetters, (CHOOSE k \in 1..26 : SubSeq(UpperLetters, k, k) = c),
                                     (CHOOSE k \in 1..26 : SubSeq(UpperLetters, k, k) = c))
           ELSE c) \o ToLowerCase(str, i + 1)

\* options is [useRust, env]: useRust a boolean or undefined, env the value
\* of process.env.BM_USE_RUST (Undefined when it is not set).
IsRustEnabled(options) ==
  IF options.useRust.t = "boolean" THEN options.useRust.b
  ELSE IF options.env = Undefined THEN FALSE
  ELSE ToLowerCase(options.env, 1) \in {"1", "true"}

\* !value for the values that occur.
IsFalsy(v) == v.t \in {"undefined", "null"}

(***************************************************************************)
(* The other implementation: runtime.normalizeContracts(payload) returns   *)
(* anything at all or throws.  Each kind of runtime stands for one way of  *)
(* answering; the objects it returns are JavaScript objects, so their keys *)
(* iterate as ObjSet leaves them.                                          *)
(***************************************************************************)
SetProp(o, key, value) == JObj(ObjSet(o.props, key, value))

SetIn(payload, graphKey, field, value) ==
  SetProp(payload, graphKey, SetProp(Get(payload, graphKey), field, value))

FieldOf(payload, graphKey, field) == Get(Get(payload, graphKey), field)

MermaidNodeValue(id, shape) ==
  JObj(<< <<"id", JStr(id)>>, <<"label", JStr(id)>>, <<"shape", JStr(shape)>> >>)

StyleValue == JObj(<< <<"fill", JStr("#fff")>> >>)

MermaidEdgeValue(props) ==
  JObj(<< <<"source", JStr("n1")>>, <<"target", JStr("n2")>>, <<"style", JStr("solid")>>,
          <<"hasArrowStart", JBool(FALSE)>>, <<"hasArrowEnd", JBool(TRUE)>> >> \o props)

SubgraphValue(id, props) ==
  JObj(<< <<"id", JStr(id)>>, <<"label", JStr(id)>>,
          <<"nodeIds", JArr(<<JStr("n1")>>)>> >> \o props)

\* A root with one child with one child ... down to the given depth.
SubgraphChain(depth) ==
  JTree([i \in 1..(depth + 1) |-> Row(i - 1, SubgraphValue("sg", <<>>), "array")])

GroupValue(id) ==
  JObj(<< <<"id", JStr(id)>>, <<"label", JStr(id)>>, <<"x", JNum(0)>>, <<"y", JNum(0)>>,
          <<"width", JNum(200)>>, <<"height", JNum(120)>> >>)

GroupChain(depth) ==
  JTree([i \in 1..(depth + 1) |-> Row(i - 1, GroupValue("g"), "array")])

PointValue(x, y) == JObj(<< <<"x", JNum(x)>>, <<"y", JNum(y)>> >>)

PositionedNodeValue(props) ==
  JObj(<< <<"id", JStr("n1")>>, <<"label", JStr("Node 1")>>, <<"shape", JStr("rectangle")>>,
          <<"x", JNum(10)>>, <<"y", JNum(10)>>, <<"width", JNum(100)>>,
          <<"height", JNum(40)>> >> \o props)

PositionedEdgeValue(style, points, props) ==
  JObj(<< <<"source", JStr("n1")>>, <<"target", JStr("n1")>>, <<"style", JStr(style)>>,
          <<"hasArrowStart", JBool(FALSE)>>, <<"hasArrowEnd", JBool(TRUE)>>,
          <<"points", JArr(points)>> >> \o props)

TwoPoints == <<PointValue(0, 0), PointValue(12, 8)>>

\* A small valid contract of each kind, for a runtime that answers with the
\* kind it was not asked for.
SmallMermaidContract ==
  JObj(<< <<"direction", JStr("TD")>>, <<"nodes", JObj(<<>>)>>, <<"edges", JArr(<<>>)>>,
          <<"subgraphs", JArr(<<>>)>>, <<"classDefs", JObj(<<>>)>>,
          <<"classAssignments", JObj(<<>>)>>, <<"nodeStyles", JObj(<<>>)>> >>)

SmallPositionedContract ==
  JObj(<< <<"width", JNum(1)>>, <<"height", JNum(1)>>, <<"nodes", JArr(<<>>)>>,
          <<"edges", JArr(<<>>)>>, <<"groups", JArr(<<>>)>> >>)

\* Answers that do not look at the kind of graph.
CtAnyRuntimes ==
  {"identity", "throws", "unexpected", "null", "otherKind", "nullGraph", "flattened"}

\* Answers with a changed mermaidGraph: the first two lines are valid
\* contracts, the others are malformed in one place.
CtMermaidRuntimes ==
  {"redirected", "boundarySubgraph",
   "badDirection", "badShape", "badNode", "badStyle", "nullLabel", "edgesNotArray",
   "badSubgraphDirection", "badSubgraphChild", "subgraphWithoutChildren", "deepSubgraph",
   "intKeyNodes", "intKeyClassDefs", "intKeyClassAssignments", "intKeyNodeStyles",
   "badClassAssignment"}

CtPositionedRuntimes ==
  {"resized", "boundaryGroup",
   "nanWidth", "badNodeShape", "nanNodeX", "badInlineStyle", "badEdgeStyle", "badPoint",
   "nanPoint", "badLabelPosition", "nullEdgeLabel", "badGroup", "badGroupChild",
   "nanGroup", "deepGroup"}

NormalizeContracts(rt, payload) ==
  LET gk == IF HasProp(payload, "mermaidGraph") THEN "mermaidGraph" ELSE "positionedGraph"
      k == rt.kind
  IN  IF k = "throws" THEN Threw("boom")
      ELSE Ok(
        CASE k = "identity" -> payload
          [] k = "unexpected" -> JObj(<< <<"unexpected", JBool(TRUE)>> >>)
          [] k = "null" -> JNull
          [] k = "otherKind" ->
               IF gk = "mermaidGraph"
               THEN JObj(<< <<"positionedGraph", SmallPositionedContract>> >>)
               ELSE JObj(<< <<"mermaidGraph", SmallMermaidContract>> >>)
          [] k = "nullGraph" -> SetProp(payload, gk, JNull)
          [] k = "flattened" ->
               SetIn(payload, gk, IF gk = "mermaidGraph" THEN "subgraphs" ELSE "groups",
                     JArr(<<>>))
          [] k = "redirected" -> SetIn(payload, gk, "direction", JStr("RL"))
          [] k = "boundarySubgraph" ->
               SetIn(payload, gk, "subgraphs",
                     JArr(<<SubgraphChain(MAX_SUBGRAPH_CONTRACT_DEPTH)>>))
          [] k = "badDirection" -> SetIn(payload, gk, "direction", JStr("XX"))
          [] k = "badShape" ->
               SetIn(payload, gk, "nodes",
                     SetProp(FieldOf(payload, gk, "nodes"), "zz", MermaidNodeValue("zz", "blob")))
          [] k = "badNode" ->
               SetIn(payload, gk, "nodes",
                     SetProp(FieldOf(payload, gk, "nodes"), "zz", JStr("zz")))
          [] k = "badStyle" ->
               SetIn(payload, gk, "edges",
                     JArr(<<SetProp(MermaidEdgeValue(<<>>), "style", JStr("wavy"))>>))
          [] k = "nullLabel" ->
               SetIn(payload, gk, "edges", JArr(<<MermaidEdgeValue(<< <<"label", JNull>> >>)>>))
          [] k = "edgesNotArray" -> SetIn(payload, gk, "edges", JObj(<<>>))
          [] k = "badSubgraphDirection" ->
               SetIn(payload, gk, "subgraphs",
                     JArr(<<JTree(<<Row(0, SubgraphValue("sg", <<>>), "array"),
                                    Row(1, SubgraphValue("sg", << <<"direction", JStr("XX")>> >>),
                                        "array")>>)>>))
          [] k = "badSubgraphChild" ->
               SetIn(payload, gk, "subgraphs",
                     JArr(<<JTree(<<Row(0, SubgraphValue("sg", <<>>), "array"),
                                    Row(1, JStr("sg"), "missing")>>)>>))
          [] k = "subgraphWithoutChildren" ->
               SetIn(payload, gk, "subgraphs",
                     JArr(<<JTree(<<Row(0, SubgraphValue("sg", <<>>), "missing")>>)>>))
          [] k = "deepSubgraph" ->
               SetIn(payload, gk, "subgraphs",
                     JArr(<<SubgraphChain(MAX_SUBGRAPH_CONTRACT_DEPTH + 1)>>))
          [] k = "intKeyNodes" ->
               SetIn(payload, gk, "nodes",
                     SetProp(FieldOf(payload, gk, "nodes"), "7", MermaidNodeValue("7", "circle")))
          [] k = "intKeyClassDefs" ->
               SetIn(payload, gk, "classDefs",
                     SetProp(FieldOf(payload, gk, "classDefs"), "7", StyleValue))
          [] k = "intKeyClassAssignments" ->
               SetIn(payload, gk, "classAssignments",
                     SetProp(FieldOf(payload, gk, "classAssignments"), "7", JStr("primary")))
          [] k = "intKeyNodeStyles" ->
               SetIn(payload, gk, "nodeStyles",
                     SetProp(FieldOf(payload, gk, "nodeStyles"), "7", StyleValue))
          [] k = "badClassAssignment" ->
               SetIn(payload, gk, "classAssignments",
                     SetProp(FieldOf(payload, gk, "classAssignments"), "zz", JNum(1)))
          [] k = "resized" -> SetIn(payload, gk, "width", JNum(999))
          [] k = "boundaryGroup" ->
               SetIn(payload, gk, "groups", JArr(<<GroupChain(MAX_GROUP_CONTRACT_DEPTH)>>))
          [] k = "nanWidth" -> SetIn(payload, gk, "width", JNaN)
          [] k = "badNodeShape" ->
               SetIn(payload, gk, "nodes",
                     JArr(<<SetProp(PositionedNodeValue(<<>>), "shape", JStr("blob"))>>))
          [] k = "nanNodeX" ->
               SetIn(payload, gk, "nodes", JArr(<<SetProp(PositionedNodeValue(<<>>), "x", JNaN)>>))
          [] k = "badInlineStyle" ->
               SetIn(payload, gk, "nodes",
                     JArr(<<PositionedNodeValue(
                              << <<"inlineStyle", JObj(<< <<"fill", JNum(1)>> >>)>> >>)>>))
          [] k = "badEdgeStyle" ->
               SetIn(payload, gk, "edges", JArr(<<PositionedEdgeValue("wavy", TwoPoints, <<>>)>>))
          [] k = "badPoint" ->
               SetIn(payload, gk, "edges",
                     JArr(<<PositionedEdgeValue("solid",
                              <<PointValue(1, 1), JObj(<< <<"bad", JBool(TRUE)>> >>)>>, <<>>)>>))
          [] k = "nanPoint" ->
               SetIn(payload, gk, "edges",
                     JArr(<<PositionedEdgeValue("solid",
                              <<PointValue(1, 1), SetProp(PointValue(1, 1), "y", JNaN)>>, <<>>)>>))
          [] k = "badLabelPosition" ->
               SetIn(payload, gk, "edges",
                     JArr(<<PositionedEdgeValue("solid", TwoPoints,
                              << <<"labelPosition", JObj(<< <<"x", JNum(1)>> >>)>> >>)>>))
          [] k = "nullEdgeLabel" ->
               SetIn(payload, gk, "edges",
                     JArr(<<PositionedEdgeValue("solid", TwoPoints, << <<"label", JNull>> >>)>>))
          [] k = "badGroup" ->
               SetIn(payload, gk, "groups",
                     JArr(<<JTree(<<Row(0, SetProp(GroupValue("g"), "id", JNum(1)), "array")>>)>>))
          [] k = "badGroupChild" ->
               SetIn(payload, gk, "groups",
                     JArr(<<JTree(<<Row(0, GroupValue("g"), "array"),
                                    Row(1, JStr("g"), "missing")>>)>>))
          [] k = "nanGroup" ->
               SetIn(payload, gk, "groups",
                     JArr(<<JTree(<<Row(0, GroupValue("g"), "array"),
                                    Row(1, SetProp(GroupValue("g"), "height", JNaN), "array")>>)>>))
          [] k = "deepGroup" ->
               SetIn(payload, gk, "groups", JArr(<<GroupChain(MAX_GROUP_CONTRACT_DEPTH + 1)>>)))

(***************************************************************************)
(* resolveTypesContractPayload and the two normalize...WithRustFallback.   *)
(***************************************************************************)
RuntimeResult(engine, value, reason) ==
  [engine |-> engine, payload |-> value, fallbackReason |-> reason]

GraphResult(engine, g, reason) ==
  [engine |-> engine, graph |-> g, fallbackReason |-> reason]

\* A resolution that falls back without giving a reason.
ResolveTypesContractPayloadSilent(payload, normalized) ==
  IF normalized.threw \/ ~IsTypesContractPayload(normalized.value)
  THEN RuntimeResult("ts", payload, JUndefined)
  ELSE RuntimeResult("rust", normalized.value, JUndefined)

\* resolveTypesContractPayload once the runtime has answered (normalized) or
\* thrown: the answer is adopted only when it is a valid payload.
ResolveTypesContractPayload(payload, normalized) ==
  IF normalized.threw
  THEN RuntimeResult("ts", payload, InitFailed(normalized.message))
  ELSE IF ~IsTypesContractPayload(normalized.value)
  THEN RuntimeResult("ts", payload, ContractFailed(MsgInvalidStructure))
  ELSE RuntimeResult("rust", normalized.value, JUndefined)

\* The end of normalizeMermaidGraphWithRustFallback, from the resolved payload.
ReturnMermaidGraph(g, resolved) ==
  IF IsFalsy(Get(resolved.payload, "mermaidGraph"))
  THEN GraphResult("ts", g, ContractFailed(MsgMermaidGraphMissing))
  ELSE LET back == FromMermaidGraphContract(Get(resolved.payload, "mermaidGraph"))
       IN IF back.threw
          THEN GraphResult("ts", g, ContractFailed(back.message))
          ELSE GraphResult(resolved.engine, back.value, resolved.fallbackReason)

ReturnPositionedGraph(g, resolved) ==
  IF IsFalsy(Get(resolved.payload, "positionedGraph"))
  THEN GraphResult("ts", g, ContractFailed(MsgPositionedGraphMissing))
  ELSE GraphResult(resolved.engine,
                   FromPositionedGraphContract(Get(resolved.payload, "positionedGraph")),
                   resolved.fallbackReason)

(***************************************************************************)
(* Specification of the interchange contract: the caller's graph is either *)
(* converted to the contract and back, or a contract handed over by the    *)
(* other implementation is converted to a graph, or the graph is           *)
(* normalised through the other implementation with fallback.  The call of *)
(* normalize...WithRustFallback is followed through its positions: the     *)
(* contract made, the other implementation called, its answer validated,   *)
(* the result returned.                                                    *)
(***************************************************************************)
CtMaxKeys == 2

\* Keys of a map-like field: ordinary ids, an all-digit id, and the one key
\* that assignment to a plain object treats specially.
CtKeyPool == {"n1", "n2", "10", "__proto__"}

CtKeySeqs ==
  {ks \in SeqsUpTo(CtKeyPool, CtMaxKeys) :
     \A i, j \in 1..Len(ks) : i # j => ks[i] # ks[j]}

CtMapFields == {"nodes", "classDefs", "classAssignments", "nodeStyles"}

CtMapValue(field, key) ==
  CASE field = "nodes" -> MermaidNodeValue(key, "rectangle")
    [] field = "classAssignments" -> JStr("primary")
    [] OTHER -> StyleValue

CtMap(field, keys) ==
  JMap([i \in 1..Len(keys) |-> <<keys[i], CtMapValue(field, keys[i])>>])

\* The map-like field `special` has the keys given, the others n1 and n2.
CtMermaidGraph(special, keys, edgeProps, subgraphs) ==
  LET keysOf(field) == IF field = special THEN keys ELSE <<"n1", "n2">>
  IN JObj(<< <<"direction", JStr("TD")>>,
             <<"nodes", CtMap("nodes", keysOf("nodes"))>>,
             <<"edges", JArr(<<MermaidEdgeValue(edgeProps)>>)>>,
             <<"subgraphs", JArr(subgraphs)>>,
             <<"classDefs", CtMap("classDefs", keysOf("classDefs"))>>,
             <<"classAssignments", CtMap("classAssignments", keysOf("classAssignments"))>>,
             <<"nodeStyles", CtMap("nodeStyles", keysOf("nodeStyles"))>> >>)

CtEdgeProps == {<<>>, << <<"label", JStr("yes")>> >>}

CtLeafSubgraph == JTree(<<Row(0, SubgraphValue("sg1", <<>>), "array")>>)

\* No subgraph, a single one, and one with two children of which one
\* overrides the direction.
CtSubgraphForests ==
  {<<>>,
   <<CtLeafSubgraph>>,
   <<JTree(<<Row(0, SubgraphValue("sg1", <<>>), "array"),
             Row(1, SubgraphValue("sg2", << <<"direction", JStr("LR")>> >>), "array"),
             Row(1, SubgraphValue("sg3", <<>>), "array")>>)>>}

\* Chains that end at the depth limit and beyond it.
CtDeepSubgraphForests ==
  {<<SubgraphChain(MAX_SUBGRAPH_CONTRACT_DEPTH)>>,
   <<SubgraphChain(MAX_SUBGRAPH_CONTRACT_DEPTH + 1)>>,
   <<CtLeafSubgraph, SubgraphChain(MAX_SUBGRAPH_CONTRACT_DEPTH + 2)>>}

CtKeyGraphs ==
  {CtMermaidGraph(f, ks, ep, <<CtLeafSubgraph>>) :
     f \in CtMapFields, ks \in CtKeySeqs, ep \in CtEdgeProps}

CtShapeGraphs ==
  {CtMermaidGraph("nodes", <<"n1", "n2">>, ep, sgs) :
     ep \in CtEdgeProps, sgs \in CtSubgraphForests}

CtDeepGraphs ==
  {CtMermaidGraph("nodes", <<"n1", "n2">>, <<>>, sgs) : sgs \in CtDeepSubgraphForests}

CtNodeProps == {<<>>, << <<"inlineStyle", StyleValue>> >>}

CtPositionedEdgeProps ==
  {<<>>,
   << <<"label", JStr("yes")>> >>,
   << <<"labelPosition", PointValue(6, 4)>> >>,
   << <<"label", JStr("yes")>>, <<"labelPosition", PointValue(6, 4)>> >>}

CtGroupForests ==
  {<<>>,
   <<JTree(<<Row(0, GroupValue("g1"), "array")>>)>>,
   <<JTree(<<Row(0, GroupValue("g1"), "array"), Row(1, GroupValue("g2"), "array"),
             Row(1, GroupValue("g3"), "array"),
             Row(2, GroupValue("g4"), "array")>>)>>}

CtDeepGroupForests ==
  {<<GroupChain(MAX_GROUP_CONTRACT_DEPTH)>>,
   <<GroupChain(MAX_GROUP_CONTRACT_DEPTH + 1)>>}

CtPositionedGraph(nodeProps, edgeProps, groups) ==
  JObj(<< <<"width", JNum(200)>>, <<"height", JNum(120)>>,
          <<"nodes", JArr(<<PositionedNodeValue(nodeProps)>>)>>,
          <<"edges", JArr(<<PositionedEdgeValue("solid", TwoPoints, edgeProps)>>)>>,
          <<"groups", JArr(groups)>> >>)

CtPositionedGraphs ==
  {CtPositionedGraph(np, ep, gs) :
     np \in CtNodeProps, ep \in CtPositionedEdgeProps, gs \in CtGroupForests}

CtDeepPositionedGraphs == {CtPositionedGraph(<<>>, <<>>, gs) : gs \in CtDeepGroupForests}

IsMermaid(g) == HasProp(g, "direction")

\* useRust given, or left to the environment variable.
CtEnabled ==
  {[useRust |-> JBool(TRUE), env |-> Undefined], [useRust |-> JUndefined, env |-> "TRUE"]}
CtDisabled ==
  {[useRust |-> JBool(FALSE), env |-> "1"], [useRust |-> JUndefined, env |-> Undefined]}

InitContract ==
  /\ pc = "start"
  /\ \/ /\ graph \in CtKeyGraphs
        /\ runtime \in {[kind |-> k] : k \in {"none", "identity", "unexpected", "intKeyNodes"}}
     \/ /\ graph \in CtShapeGraphs
        /\ runtime \in {[kind |-> k] : k \in {"none"} \cup CtAnyRuntimes \cup CtMermaidRuntimes}
     \/ /\ graph \in CtPositionedGraphs
        /\ runtime \in {[kind |-> k] : k \in {"none"} \cup CtAnyRuntimes \cup CtPositionedRuntimes}
     \/ /\ graph \in CtDeepGraphs \cup CtDeepPositionedGraphs
        /\ runtime \in {[kind |-> k] : k \in {"none", "identity", "flattened"}}
  /\ opts \in CtEnabled \cup CtDisabled
  /\ (opts \in CtDisabled => runtime.kind = "identity")
  /\ elk = NoElk
  /\ posNodes = <<>> /\ posEdges = <<>> /\ posGroups = <<>>
  /\ pre = NoPre /\ info = NoInfo /\ canvas = NoCanvas
  /\ wire = NoResult /\ answer = NoResult /\ returned = NoResult
  /\ globals = SettledGlobals

\* to...Contract(graph): the first half of a round trip.
ToContractOf(g) ==
  IF IsMermaid(g) THEN ToMermaidGraphContract(g) ELSE Ok(ToPositionedGraphContract(g))

FromContractOf(g, c) ==
  IF IsMermaid(g) THEN FromMermaidGraphContract(c) ELSE Ok(FromPositionedGraphContract(c))

PayloadOf(g, c) ==
  JObj(<< <<(IF IsMermaid(g) THEN "mermaidGraph" ELSE "positionedGraph"), c>> >>)

ToContract ==
  /\ pc = "start"
  /\ wire' = ToContractOf(graph)
  /\ pc' = "contract"
  /\ UNCHANGED <<graph, opts, elk, posNodes, posEdges, posGroups, pre, info, canvas, runtime,
                 answer, returned,
                 globals>>

\* The answers that have the type of the contract asked for.
CtTypedRuntimes ==
  {"identity", "flattened", "redirected", "boundarySubgraph", "deepSubgraph", "intKeyNodes",
   "intKeyClassDefs", "intKeyClassAssignments", "intKeyNodeStyles",
   "resized", "boundaryGroup", "deepGroup"}

\* A contract that was made elsewhere is handed to this side.
ReceiveContract ==
  /\ pc = "start"
  /\ runtime.kind \in CtTypedRuntimes
  /\ ~ToContractOf(graph).threw
  /\ wire' =
       Ok(Get(NormalizeContracts(runtime, PayloadOf(graph, ToContractOf(graph).value)).value,
              IF IsMermaid(graph) THEN "mermaidGraph" ELSE "positionedGraph"))
  /\ pc' = "received"
  /\ UNCHANGED <<graph, opts, elk, posNodes, posEdges, posGroups, pre, info, canvas, runtime,
                 answer, returned,
                 globals>>

\* from...Contract(contract): the second half of a round trip, or the
\* conversion of a contract that was received.
FromContract ==
  /\ pc \in {"contract", "received"}
  /\ ~wire.threw
  /\ returned' = [op |-> IF pc = "contract" THEN "roundtrip" ELSE "deserialize",
                  back |-> FromContractOf(graph, wire.value)]
  /\ pc' = "converted"
  /\ UNCHANGED <<graph, opts, elk, posNodes, posEdges, posGroups, pre, info, canvas, runtime,
                 wire, answer,
                 globals>>

\* normalize...WithRustFallback up to the call of resolveTypesContractPayload.
NormalizeBegin ==
  /\ pc = "start"
  /\ IF ~IsRustEnabled(opts)
     THEN /\ returned' = [op |-> "normalize"] @@ GraphResult("ts", graph, JUndefined)
          /\ wire' = wire
          /\ pc' = "normalized"
     ELSE /\ wire' = ToContractOf(graph)
          /\ IF ToContractOf(graph).threw
             THEN /\ returned' = [op |-> "normalize"]
                       @@ GraphResult("ts", graph, ContractFailed(ToContractOf(graph).message))
                  /\ pc' = "normalized"
             ELSE /\ returned' = returned
                  /\ pc' = "serialized"
  /\ UNCHANGED <<graph, opts, elk, posNodes, posEdges, posGroups, pre, info, canvas, runtime,
                 answer,
                 globals>>

\* resolveTypesContractPayload up to the answer of runtime.normalizeContracts;
\* without a runtime it returns at once.
CallRuntime ==
  /\ pc = "serialized"
  /\ IF runtime.kind = "none"
     THEN /\ answer' = RuntimeResult("ts", PayloadOf(graph, wire.value),
                                     InitFailed(MsgRuntimeUnavailable))
          /\ pc' = "resolved"
     ELSE /\ answer' = NormalizeContracts(runtime, PayloadOf(graph, wire.value))
          /\ pc' = "answered"
  /\ UNCHANGED <<graph, opts, elk, posNodes, posEdges, posGroups, pre, info, canvas, runtime,
                 wire, returned,
                 globals>>

\* resolveTypesContractPayload from the answer to its return.
Validate ==
  /\ pc = "answered"
  /\ answer' = ResolveTypesContractPayload(PayloadOf(graph, wire.value), answer)
  /\ pc' = "resolved"
  /\ UNCHANGED <<graph, opts, elk, posNodes, posEdges, posGroups, pre, info, canvas, runtime,
                 wire, returned,
                 globals>>

\* normalize...WithRustFallback after resolveTypesContractPayload.
NormalizeEnd ==
  /\ pc = "resolved"
  /\ returned' = [op |-> "normalize"]
       @@ (IF IsMermaid(graph) THEN ReturnMermaidGraph(graph, answer)
           ELSE ReturnPositionedGraph(graph, answer))
  /\ pc' = "normalized"
  /\ UNCHANGED <<graph, opts, elk, posNodes, posEdges, posGroups, pre, info, canvas, runtime,
                 wire, answer,
                 globals>>

\* resolveTypesContractPayload called by itself on the payload that holds the
\* caller's graph in contract form.
ResolvePayload ==
  /\ pc = "start"
  /\ ~ToContractOf(graph).threw
  /\ LET payload == PayloadOf(graph, ToContractOf(graph).value)
     IN /\ wire' = Ok(payload)
        /\ IF ~IsRustEnabled(opts)
           THEN /\ answer' = RuntimeResult("ts", payload, JUndefined)
                /\ info' = [pass |-> "resolve", invoked |-> FALSE]
           ELSE IF runtime.kind = "none"
           THEN /\ answer' = RuntimeResult("ts", payload, InitFailed(MsgRuntimeUnavailable))
                /\ info' = [pass |-> "resolve", invoked |-> FALSE]
           ELSE /\ answer' = ResolveTypesContractPayload(payload,
                                NormalizeContracts(runtime, payload))
                /\ info' = [pass |-> "resolve", invoked |-> TRUE]
  /\ pc' = "payload"
  /\ UNCHANGED <<graph, opts, elk, posNodes, posEdges, posGroups, pre, canvas, runtime,
                 returned, globals>>

NextContract ==
  \/ ResolvePayload
  \/ ToContract
  \/ ReceiveContract
  \/ FromContract
  \/ NormalizeBegin
  \/ CallRuntime
  \/ Validate
  \/ NormalizeEnd

SpecContract == InitContract /\ [][NextContract]_vars

(***************************************************************************)
(* Claims about the interchange contract.                                  *)
(***************************************************************************)
MapFieldsOf(g) == IF IsMermaid(g) THEN CtMapFields ELSE {}

TreesOf(g) == IF IsMermaid(g) THEN Get(g, "subgraphs").items ELSE Get(g, "groups").items

\* The depth of the deepest element of the trees (0 when there is none).
DeepestOf(trees) ==
  IF trees = <<>> THEN 0
  ELSE CHOOSE d \in 0..(MAX_SUBGRAPH_CONTRACT_DEPTH + 2) :
         /\ \E k \in 1..Len(trees) : \E i \in 1..Len(trees[k].rows) : trees[k].rows[i].depth = d
         /\ \A k \in 1..Len(trees) : \A i \in 1..Len(trees[k].rows) : trees[k].rows[i].depth <= d

HasIntegerLikeMapKey(g) ==
  \E f \in MapFieldsOf(g) :
    \E i \in 1..Len(Get(g, f).entries) : IsIntegerLikeKey(Get(g, f).entries[i][1])

\* null or undefined anywhere inside a value of the contract.
RECURSIVE HasNullInside(_)
HasNullInside(v) ==
  CASE v.t \in {"null", "undefined"} -> TRUE
    [] v.t = "object" -> \E i \in 1..Len(v.props) : HasNullInside(v.props[i][2])
    [] v.t = "array" -> \E i \in 1..Len(v.items) : HasNullInside(v.items[i])
    [] v.t = "tree" -> \E i \in 1..Len(v.rows) : HasNullInside(v.rows[i].obj)
    [] OTHER -> FALSE

\* Element by element, the contract has an optional field exactly when the
\* graph has it.
SameOptionalFields(g, c) ==
  LET same(a, b, field) == HasProp(a, field) <=> HasProp(b, field)
  IN /\ \A i \in 1..Len(Get(g, "edges").items) :
          /\ same(Get(g, "edges").items[i], Get(c, "edges").items[i], "label")
          /\ same(Get(g, "edges").items[i], Get(c, "edges").items[i], "labelPosition")
     /\ IsMermaid(g) =>
          \A k \in 1..Len(TreesOf(g)) : \A i \in 1..Len(TreesOf(g)[k].rows) :
            same(TreesOf(g)[k].rows[i].obj, TreesOf(c)[k].rows[i].obj, "direction")
     /\ ~IsMermaid(g) =>
          \A i \in 1..Len(Get(g, "nodes").items) :
            same(Get(g, "nodes").items[i], Get(c, "nodes").items[i], "inlineStyle")

\* C11: converting a graph to the contract and back succeeds and gives every
\* map-like field (nodes, classDefs, classAssignments, nodeStyles) the keys
\* of the original in the original order, whatever the keys are, and the
\* contract has no null and no optional field that the graph does not have.
\* (Graphs nested beyond the depth limit are left to C14.)
C11_RoundTripKeepsOrder ==
  /\ (pc = "contract" /\ DeepestOf(TreesOf(graph)) <= MAX_SUBGRAPH_CONTRACT_DEPTH) =>
       /\ ~wire.threw
       /\ ~HasNullInside(wire.value)
       /\ SameOptionalFields(graph, wire.value)
       /\ \A f \in MapFieldsOf(graph) :
            KeysOf(Get(wire.value, f).props) = KeysOf(Get(graph, f).entries)
  /\ (pc = "converted" /\ returned.op = "roundtrip") =>
       /\ ~returned.back.threw
       /\ \A f \in MapFieldsOf(graph) :
            KeysOf(Get(returned.back.value, f).entries) = KeysOf(Get(graph, f).entries)

\* The answers of the other implementation that are valid contracts of the
\* kind asked for.
CtValidRuntimes ==
  {"identity", "flattened", "redirected", "boundarySubgraph", "resized", "boundaryGroup"}

\* The answer is a valid payload with the graph asked for: it was made valid,
\* and where it keeps the caller's trees these are within the depth limit.
AnswerIsValid ==
  /\ runtime.kind \in CtValidRuntimes
  /\ runtime.kind \in {"identity", "redirected", "resized"} =>
       DeepestOf(TreesOf(graph)) <= MAX_GROUP_CONTRACT_DEPTH

\* The call went as far as asking the other implementation.
RuntimeWasCalled ==
  pc = "normalized" /\ IsRustEnabled(opts) /\ runtime.kind # "none" /\ wire # NoResult
  /\ ~wire.threw

\* C12: with the Rust path enabled the answer of the other implementation is
\* adopted (engine rust, no fallbackReason) exactly when it is a valid
\* payload; for a malformed answer or an exception of the runtime the call
\* returns engine ts, a fallbackReason and a graph equal to the caller's.
C12_AdoptsExactlyValid ==
  RuntimeWasCalled =>
    IF AnswerIsValid
    THEN returned.engine = "rust" /\ returned.fallbackReason = JUndefined
    ELSE /\ returned.engine = "ts"
         /\ returned.fallbackReason # JUndefined
         /\ returned.graph = graph

CtIntegerKeyRuntimes ==
  {"intKeyNodes", "intKeyClassDefs", "intKeyClassAssignments", "intKeyNodeStyles"}

\* A map-like field has an integer-like key, in the caller's graph or in the
\* answer of the other implementation.
IntegerLikeKeyMet ==
  /\ pc = "normalized" /\ IsRustEnabled(opts)
  /\ \/ HasIntegerLikeMapKey(graph)
     \/ ~wire.threw /\ runtime.kind \in CtIntegerKeyRuntimes

CarriedKeys(keys) == SelectSeq(keys, LAMBDA k : k # "__proto__")

C14_DepthLimitOnEveryPath ==
  LET deep == DeepestOf(TreesOf(graph)) > MAX_SUBGRAPH_CONTRACT_DEPTH
      deepAnswer == runtime.kind \in {"deepSubgraph", "deepGroup"}
      keys == HasIntegerLikeMapKey(graph)
  IN /\ (pc = "contract" /\ ~keys) => (wire.threw <=> deep)
     /\ (pc = "converted" /\ returned.op = "roundtrip") => ~returned.back.threw
     /\ (pc = "converted" /\ returned.op = "deserialize") =>
          (returned.back.threw <=> deepAnswer)
     /\ (pc = "normalized" /\ IsRustEnabled(opts) /\ deep) =>
          returned.engine = "ts" /\ returned.fallbackReason # JUndefined
     /\ (RuntimeWasCalled /\ deepAnswer) =>
          returned.engine = "ts" /\ returned.fallbackReason # JUndefined
     /\ (RuntimeWasCalled /\ ~deep
           /\ runtime.kind \in {"identity", "boundarySubgraph", "boundaryGroup"}) =>
          returned.engine = "rust"

(***************************************************************************)
(* Specification of the assembly of edges, extractEdgesRecursively, on a   *)
(* solver result whose edges all lie in the root: one edge with any        *)
(* section of up to AsMaxPoints points, or up to AsMaxEdges edges of a few *)
(* shapes; with or without a label and a label placement of the solver; in *)
(* a diagram with or without a group (and so with or without margins).     *)
(***************************************************************************)
AsMaxEdges == 4
AsMaxPoints == 3

\* Section points: the corners of a 30 x 40 px box (diagonal 50 px) and a
\* point 1 px off one corner.
AsGrid == {Pt(0, 0), Pt(Px(30), 0), Pt(Px(30), Px(40)), Pt(0, Px(40)), Pt(Px(1), Px(40))}

AsPolylines == UNION {[1..n -> AsGrid] : n \in 2..AsMaxPoints}

\* The solver's placement of an edge label: its box.
AsInlineLabel == [hasXY |-> TRUE, x |-> Px(5), y |-> Px(5), width |-> Px(20), height |-> Px(10)]

\* What is known of one edge: the points of its section (none: no section),
\* its label, and whether the solver placed the label.
AsEdge(path, label, inline) == [path |-> path, label |-> label, inline |-> inline]

AsLabelOptions == {<<Undefined, FALSE>>, <<"go", FALSE>>, <<"go", TRUE>>}

\* One edge with any section.
AsSingleEdges ==
  {<<AsEdge(path, lo[1], lo[2])>> : path \in AsPolylines, lo \in AsLabelOptions}

\* The edges of a diagram of several: straight, diagonal, with two diagonal
\* pairs, without a section.
AsEdgeChoices ==
  {AsEdge(<<Pt(0, 0), Pt(Px(30), 0)>>, Undefined, FALSE),
   AsEdge(<<Pt(0, 0), Pt(Px(30), 0)>>, "go", TRUE),
   AsEdge(<<Pt(0, 0), Pt(Px(30), Px(40))>>, Undefined, FALSE),
   AsEdge(<<Pt(0, 0), Pt(Px(30), Px(40))>>, "go", TRUE),
   AsEdge(<<Pt(0, Px(40)), Pt(Px(30), 0), Pt(0, 0), Pt(Px(30), Px(40))>>, "go", FALSE),
   AsEdge(<<>>, Undefined, FALSE)}

AsElkEdge(e, index) ==
  [id |-> EdgeId(index),
   sources |-> <<"A">>, targets |-> <<"B">>,
   sections |-> IF Len(e.path) = 0 THEN <<>>
                ELSE <<[startPoint |-> e.path[1],
                        bendPoints |-> SubSeq(e.path, 2, Len(e.path) - 1),
                        endPoint |-> e.path[Len(e.path)]]>>,
   labels |-> IF e.inline THEN <<AsInlineLabel>> ELSE <<>>]

AsElkResult(es) ==
  [id |-> "root", x |-> 0, y |-> 0, children |-> <<>>,
   edges |-> [k \in 1..Len(es) |-> AsElkEdge(es[k], k - 1)]]

AsGraph(es, forest) ==
  [direction |-> "TD", nodes |-> <<"A", "B">>,
   edges |-> [k \in 1..Len(es) |->
                [source |-> "A", target |-> "B", label |-> es[k].label, style |-> "solid"]],
   subgraphs |-> forest]

\* The box of the one group of a diagram that has a group.
AsGroupBox ==
  [id |-> "G1", x |-> Px(10), y |-> Px(10), width |-> Px(10), height |-> Px(10),
   children |-> <<>>]

InitAssemble ==
  /\ pc = "solved"
  /\ \E es \in AsSingleEdges \cup (SeqsUpTo(AsEdgeChoices, AsMaxEdges) \ {<<>>}) :
     \E grouped \in BOOLEAN :
       /\ graph = AsGraph(es, IF grouped THEN <<LyGroup("G1", <<>>, <<>>, Undefined)>>
                              ELSE <<>>)
       /\ elk = AsElkResult(es)
       /\ posGroups = IF grouped THEN <<AsGroupBox>> ELSE <<>>
  /\ opts = DEFAULTS
  /\ posNodes = <<>> /\ posEdges = <<>>
  /\ pre = NoPre /\ info = NoInfo /\ canvas = NoCanvas
  /\ runtime = NoRuntime /\ wire = NoResult /\ answer = NoResult
  /\ returned = NoResult
  /\ globals = SettledGlobals

\* The margins and the edges of elkToPositioned, from the groups extracted.
Assemble ==
  /\ pc = "solved"
  /\ LET margins == ComputeMargins(posGroups)
     IN /\ posEdges' = ExtractEdgesRecursively(elk, graph, margins)
        /\ info' = [pass |-> "extract", segs |-> CollectEdgeSegments(elk),
                    margins |-> margins]
  /\ pc' = "assembled"
  /\ UNCHANGED <<graph, opts, elk, posNodes, posGroups, pre, canvas, runtime, wire, answer, returned,
                 globals>>

NextAssemble == Assemble

SpecAssemble == InitAssemble /\ [][NextAssemble]_vars

(***************************************************************************)
(* Claims about the solver call and the assembly of edges.                 *)
(***************************************************************************)

\* C15: when the solver reports an error, or gives no result before the
\* dispatch returns, the layout call throws to the caller and returns no
\* PositionedGraph: nothing of one is built and no later step runs.
C15_SolverFailureThrows ==
  /\ [](pc \in {"solved", "failed"} =>
          /\ (info.error # "" \/ ~info.delivered \/ ~info.data) <=> pc = "failed"
          /\ pc = "failed" =>
               /\ returned.threw
               /\ posNodes = <<>> /\ posEdges = <<>> /\ posGroups = <<>>
               /\ canvas = NoCanvas)
  /\ [][pc # "failed"]_vars

\* The dispatch returned without an answer and the call threw.
C15_Witness ==
  /\ pc = "failed"
  /\ ~info.delivered
  /\ returned = [threw |-> TRUE, message |-> "ELK layout did not return synchronously"]

\* A segment appended after the points accumulated so far, its first point
\* left out only when it is the last accumulated point.
AppendDroppingDuplicate(acc, points) ==
  IF Len(points) = 0 THEN acc
  ELSE IF Len(acc) > 0 /\ points[1] = acc[Len(acc)] THEN acc \o Tail(points)
  ELSE acc \o points

\* C16: the points of an assembled edge are the outgoing-internal segment,
\* then the external segment, then the incoming-internal segment, where the
\* first point of the external and of the incoming segment is dropped only
\* if it equals the last point accumulated before it, and is kept otherwise.
C16_DropsOnlyDuplicates ==
  Extracted =>
    \A i \in DOMAIN info.segs.seg :
      LET seg == info.segs.seg[i]
          pointsOf(part) == IF part.present THEN part.points ELSE <<>>
      IN CombineSegments(seg)
           = AppendDroppingDuplicate(
               AppendDroppingDuplicate(pointsOf(seg.outgoing), pointsOf(seg.external)),
               pointsOf(seg.incoming))

\* The gap along the flow between two nodes as the pass found them.
FlowGap(i, j) ==
  FlowPos(graph.direction, pre.nodes[j]) - FlowPos(graph.direction, pre.nodes[i])

\* A direct edge between the node and a member of the sequence of nodes.
HasEdgeTo(members, j) ==
  \E m \in Range(members) : \E k \in 1..Len(pre.edges) :
    \/ pre.edges[k].source = pre.nodes[m].id /\ pre.edges[k].target = pre.nodes[j].id
    \/ pre.edges[k].target = pre.nodes[m].id /\ pre.edges[k].source = pre.nodes[j].id

\* C20: in layer alignment a node joins the current cluster exactly when its
\* gap from the node before it in sort order is at most 0.6 times the layer
\* spacing the caller configured for the call, and it has no direct edge to
\* a node already in the cluster.
C20_ThresholdFromCallerSpacing ==
  Aligned =>
    LET joins(members, j) ==
          /\ 10 * FlowGap(members[Len(members)], j) <= 6 * opts.layerSpacing
          /\ ~HasEdgeTo(members, j)
    IN \A l \in 1..Len(info.layers) :
         /\ \A k \in 2..Len(info.layers[l]) :
              joins(SubSeq(info.layers[l], 1, k - 1), info.layers[l][k])
         /\ l > 1 => ~joins(info.layers[l - 1], info.layers[l][1])

Assembled == pc = "assembled" /\ info.pass = "extract"

\* The points of edge k (in assembly order) before repair.
AsInput(k) == CombineSegments(info.segs.seg[info.segs.order[k]])

\* The diagonal pairs among the first i points of a polyline.
DiagonalPairsUpTo(points, i) ==
  Cardinality({j \in 2..i : IsDiagonal(points[j - 1], points[j])})

\* Where point i of the input is in a repaired polyline: after two bend
\* points for every diagonal pair before it.
RepairedIndex(points, i) == i + 2 * DiagonalPairsUpTo(points, i)

\* C17: for a polyline with at least one diagonal pair, with or without
\* margins, the repaired polyline has no diagonal pair, starts and ends at
\* the first and last input points, and holds the input points in their
\* order with two bend points, and no more, inserted per diagonal pair.
C17_RepairIsOrthogonal ==
  Assembled =>
    \A k \in 1..Len(posEdges) :
      LET in == AsInput(k)
          out == posEdges[k].points
      IN NeedsWork(in) =>
           /\ \A i \in 2..Len(out) : ~IsDiagonal(out[i - 1], out[i])
           /\ out[1] = in[1]
           /\ out[Len(out)] = in[Len(in)]
           /\ Len(out) = Len(in) + 2 * DiagonalPairsUpTo(in, Len(in))
           /\ \A i \in 1..Len(in) : out[RepairedIndex(in, i)] = in[i]

\* A polyline of three points with two diagonal pairs was repaired through
\* the midpoints, there being no margins.
C17_Witness ==
  /\ Assembled
  /\ ~info.margins.present
  /\ Len(posEdges) = 1
  /\ AsInput(1) = <<Pt(0, 0), Pt(Px(30), Px(40)), Pt(0, 0)>>
  /\ Len(posEdges[1].points) = 7
  /\ posEdges[1].points[2] = Pt(0, Px(20))

\* The number of edges before edge k, in assembly order, that needed repair.
RepairedBefore(k) == Cardinality({j \in 1..(k - 1) : NeedsWork(AsInput(j))})

OnPolyline(p, points) ==
  /\ ~p.isNaN
  /\ \E i \in 2..Len(points) :
       LET a == points[i - 1]
           b == points[i]
       IN /\ p.x >= (IF a.x < b.x THEN a.x ELSE b.x)
          /\ p.x <= (IF a.x < b.x THEN b.x ELSE a.x)
          /\ p.y >= (IF a.y < b.y THEN a.y ELSE b.y)
          /\ p.y <= (IF a.y < b.y THEN b.y ELSE a.y)
          /\ Abs((b.x - a.x) * (p.y - a.y) - (b.y - a.y) * (p.x - a.x))
               <= Abs(b.x - a.x) + Abs(b.y - a.y)

\* C19: a labelled edge with at least two points has a label anchor: the
\* solver's placement of the label when the external segment carried one
\* and the path was not repaired; otherwise the point at half the arc
\* length of the final polyline, which lies on the polyline also when
\* consecutive points coincide or the polyline has no length.
C19_LabelAnchor ==
  Assembled =>
    \A k \in 1..Len(posEdges) :
      LET in == AsInput(k)
          out == posEdges[k].points
          external == info.segs.seg[info.segs.order[k]].external
      IN (HasLabel(posEdges[k]) /\ Len(out) >= 2) =>
           /\ posEdges[k].hasLabelPosition
           /\ IF external.hasLabelPosition /\ ~NeedsWork(in)
              THEN posEdges[k].labelPosition
                     = [x |-> AsInlineLabel.x + AsInlineLabel.width \div 2,
                        y |-> AsInlineLabel.y + AsInlineLabel.height \div 2,
                        isNaN |-> FALSE]
              ELSE /\ posEdges[k].labelPosition = CalculatePathMidpoint(out)
                   /\ OnPolyline(posEdges[k].labelPosition, out)

(***************************************************************************)
(* Specification of the layer aligner on an edge with bend points: up to   *)
(* AdMaxNodes nodes, one edge from the first node to the second, with up   *)
(* to AdMaxBends points between its ends.                                  *)
(***************************************************************************)
AdMaxNodes == 4
AdMaxBends == 3

\* Flow-axis coordinates of the nodes: 0, 1.5 and 3 px.  The two ends of the
\* edge take any of them; the other nodes stand at 0 or 3 px, listed in
\* ascending order (the pass sorts the nodes by this coordinate).
AdFlowPool == {0, 30, 60}

CrossPos(direction, p) == IF IsHorizontal(direction) THEN p.y ELSE p.x

\* The point with the given coordinates along and across the flow.
FlowCrossPt(direction, flow, cross) ==
  IF IsHorizontal(direction) THEN Pt(flow, cross) ELSE Pt(cross, flow)

\* Points between the ends a and b of an edge: straight across the flow from
\* a and from b, and straight along the flow from a and from b.
AdBendPool(direction, a, b) ==
  {FlowCrossPt(direction, FlowPos(direction, a), Px(50)),
   FlowCrossPt(direction, FlowPos(direction, b), Px(50)),
   FlowCrossPt(direction, Px(200), CrossPos(direction, a)),
   FlowCrossPt(direction, Px(200), CrossPos(direction, b))}

InitAdjust ==
  /\ pc = "align"
  /\ \E direction \in {"TD", "LR"} :
     \E n \in 2..AdMaxNodes :
     \E pos \in {f \in [1..n -> AdFlowPool] :
                    \A i \in 3..n : f[i] # 30 /\ (i < n => f[i] <= f[i + 1])} :
       LET ns == [i \in 1..n |-> AlNode(direction, i, pos[i])]
           a == Centre(ns[1])
           b == Centre(ns[2])
       IN \E bends \in SeqsUpTo(AdBendPool(direction, a, b), AdMaxBends) :
            /\ graph = EmptyGraph(direction)
            /\ posNodes = ns
            /\ posEdges = <<[source |-> ns[1].id, target |-> ns[2].id,
                             label |-> Undefined, style |-> "solid",
                             points |-> <<a>> \o bends \o <<b>>,
                             hasLabelPosition |-> FALSE,
                             labelPosition |-> NoLabelPosition]>>
  /\ elk = NoElk
  /\ posGroups = <<>>
  /\ opts = DEFAULTS
  /\ pre = NoPre /\ info = NoInfo /\ canvas = NoCanvas
  /\ runtime = NoRuntime /\ wire = NoResult /\ answer = NoResult
  /\ returned = NoResult
  /\ globals = SettledGlobals

SpecAdjust == InitAdjust /\ [][NextAlign]_vars

(***************************************************************************)
(* Claims about the edges and nodes after layer alignment.                 *)
(***************************************************************************)

\* The index of the node with the id, in the nodes handed to the pass.
NodeIndex(id) == CHOOSE i \in 1..Len(pre.nodes) : pre.nodes[i].id = id

\* The displacement of point i of edge k along the flow.
PointShift(k, i) ==
  FlowPos(graph.direction, posEdges[k].points[i])
    - FlowPos(graph.direction, pre.edges[k].points[i])

\* C21: after layer alignment, the first point of every edge with at least
\* two points whose source node was shifted by d is displaced along the flow
\* by exactly d, and its last point by exactly the delta of a shifted target
\* node, also for edges of two points and edges with both ends shifted.
C21_EndpointsFollowNodes ==
  Aligned =>
    \A k \in 1..Len(pre.edges) :
      LET len == Len(pre.edges[k].points)
          ds == info.deltas[NodeIndex(pre.edges[k].source)]
          dt == info.deltas[NodeIndex(pre.edges[k].target)]
      IN len >= 2 =>
           /\ ds # 0 => PointShift(k, 1) = ds
           /\ dt # 0 => PointShift(k, len) = dt

\* Whether points i and j of edge k had the same coordinate across the flow
\* (along the flow) before the pass.
SharedCross(k, i, j) ==
  CrossPos(graph.direction, pre.edges[k].points[i])
    = CrossPos(graph.direction, pre.edges[k].points[j])
SharedFlow(k, i, j) ==
  FlowPos(graph.direction, pre.edges[k].points[i])
    = FlowPos(graph.direction, pre.edges[k].points[j])

\* Nothing but the flow coordinate of the two points at either end of edge k
\* has changed.
OnlyEndLegsMoved(k) ==
  LET len == Len(pre.edges[k].points)
  IN /\ Len(posEdges[k].points) = len
     /\ \A i \in 1..len :
          /\ CrossPos(graph.direction, posEdges[k].points[i])
               = CrossPos(graph.direction, pre.edges[k].points[i])
          /\ (i > 2 /\ i < len - 1) => posEdges[k].points[i] = pre.edges[k].points[i]

JuGroupA(direction) ==
  [BuBox(direction, "G0", Px(80), Px(80), Px(0) - Px(20), Px(72))
     EXCEPT !.id = "G0"] @@ [children |-> <<>>]

JuGroupChoices(direction) ==
  {<<>>, <<JuGroupA(direction)>>, <<BuGroup(direction)>>,
   <<JuGroupA(direction), BuGroup(direction)>>}

InitJunction ==
  /\ pc = "bundle"
  /\ \E direction \in {"TD", "LR", "BT", "RL"} :
     \E groups \in JuGroupChoices(direction) :
     \E chosen \in {S \in SUBSET (1..Len(BuPairs)) : Cardinality(S) <= BuMaxEdges} :
     \E variant \in [chosen -> {1, 3}] :
       LET order == SelectSeqIdx([k \in 1..Len(BuPairs) |-> k], LAMBDA k : k \in chosen, 1)
       IN /\ graph = EmptyGraph(direction)
          /\ posNodes = BuNodes(direction)
          /\ posGroups = groups
          /\ posEdges = [k \in 1..Len(order) |->
                           BuEdge(direction, BuPairs[order[k]], BuVariants[variant[order[k]]])]
  /\ elk = NoElk
  /\ opts = DEFAULTS
  /\ pre = NoPre /\ info = NoInfo /\ canvas = NoCanvas
  /\ runtime = NoRuntime /\ wire = NoResult /\ answer = NoResult
  /\ returned = NoResult
  /\ globals = SettledGlobals

SpecJunction == InitJunction /\ [][NextBundle]_vars

(***************************************************************************)
(* Claims about the junction of a bundle.                                  *)
(***************************************************************************)

\* The reference node of the bundle that rewrote edge k: the shared source of
\* a fan-out bundle, the shared target of a fan-in bundle.
ReferenceNode(k) ==
  NodeById(posNodes, IF info.tags[k] = "fanout" THEN posEdges[k].source
                     ELSE posEdges[k].target)

\* The junction of the bundle that rewrote edge k: the end of the shared
\* trunk, on the line through the centre of the reference node.
Junction(k) ==
  IF info.tags[k] = "fanout" THEN posEdges[k].points[2] ELSE posEdges[k].points[3]

\* All groups of the forest, outermost first.
RECURSIVE AllGroups(_)
AllGroups(groups) ==
  Flatten([k \in 1..Len(groups) |-> <<groups[k]>> \o AllGroups(groups[k].children)])

InsideBox(p, box) ==
  /\ p.x >= box.x /\ p.x <= box.x + box.width
  /\ p.y >= box.y /\ p.y <= box.y + box.height

\* C23: after the junction adjustment, the junction of a bundle is inside the
\* box of no group that does not contain the bundle's reference node.
C23_JunctionOutsideForeignGroups ==
  Bundled =>
    \A k \in 1..Len(posEdges) :
      info.tags[k] # "none" =>
        LET all == AllGroups(posGroups)
        IN \A j \in 1..Len(all) :
             ~InsideBox(Centre(ReferenceNode(k)), all[j])
               => ~InsideBox(Junction(k), all[j])

\* The coordinate of a point along the flow, counted in the direction of the
\* flow (so that "before" is "less" in all four directions).
Downstream(direction, p) ==
  IF direction \in {"BT", "RL"} THEN 0 - FlowPos(direction, p) ELSE FlowPos(direction, p)

\* C28: the junction of every bundle lies strictly between the exit point of
\* each bundled source and the entry point of each bundled target along the
\* flow (for a fan-out bundle: after the source's exit and before the entry
\* of the nearest target; for a fan-in bundle: after the exit of the last
\* source and before the target's entry).
C28_JunctionStrictlyBetween ==
  Bundled =>
    \A k \in 1..Len(posEdges) :
      info.tags[k] # "none" =>
        /\ Downstream(graph.direction, posEdges[k].points[1])
             < Downstream(graph.direction, Junction(k))
        /\ Downstream(graph.direction, Junction(k))
             < Downstream(graph.direction, posEdges[k].points[4])

(***************************************************************************)
(* Claims about the canvas and the offsets of a whole layout call.         *)
(***************************************************************************)

\* The canvas the claim describes, with the outer padding taken from the
\* given options.
CanvasWith(options) ==
  LET pts == Flatten([k \in 1..Len(posEdges) |-> posEdges[k].points])
      lps == SelectSeqIdx([k \in 1..Len(posEdges) |-> posEdges[k].labelPosition],
                          LAMBDA k : posEdges[k].hasLabelPosition, 1)
  IN [width |-> MaxOfSeq(<<elk.width>>
                   \o [k \in 1..Len(pts) |->
                         pts[k].x + Px(ARROW_HEAD_WIDTH) + options.padding]
                   \o [k \in 1..Len(lps) |-> lps[k].x + Px(60) + options.padding]),
      height |-> MaxOfSeq(<<elk.height>>
                   \o [k \in 1..Len(pts) |->
                         pts[k].y + Px(ARROW_HEAD_WIDTH) + options.padding]
                   \o [k \in 1..Len(lps) |-> lps[k].y + Px(20) + options.padding])]

\* C24: the returned canvas is the maximum of the solver's dimension, every
\* edge point plus the arrowhead margin plus the outer padding the caller
\* configured for the call, and every label anchor plus the label extent
\* plus that padding; it is never smaller than the solver's dimension.
C24_CanvasUsesCallerPadding ==
  (Done /\ ~canvas.isNaN) =>
    /\ canvas.width = CanvasWith(opts).width
    /\ canvas.height = CanvasWith(opts).height
    /\ canvas.width >= elk.width /\ canvas.height >= elk.height

(***************************************************************************)
(* Specification of the extraction of a nested solver result: a chain of   *)
(* up to OfMaxDepth groups, one inside the other, node A in the innermost, *)
(* node B at the root; every container (the root and each group) may hold  *)
(* a solver edge of its own.  The local position of each group and of A is *)
(* one of OfLocalPool.                                                     *)
(***************************************************************************)
OfMaxDepth == 2

OfLocalPool == {Pt(0, 0), Pt(Px(16), Px(44)), Pt(Px(5), Px(7))}

\* The solver edge held by the container at the level, in the container's
\* own coordinates.
OfElkEdge(level) ==
  [id |-> EdgeId(level), sources |-> <<"A">>, targets |-> <<"B">>,
   sections |-> <<[startPoint |-> Pt(Px(1), Px(2)),
                   bendPoints |-> <<Pt(Px(1), Px(9))>>,
                   endPoint |-> Pt(Px(6), Px(9))]>>,
   labels |-> <<>>]

OfLeaf(id, at) ==
  ElkLeaf(id) @@ [x |-> at.x, y |-> at.y, width |-> Px(60), height |-> Px(36)]

\* The container at the level (0 is the root) of a chain of depth groups.
RECURSIVE OfContainer(_, _, _, _)
OfContainer(level, depth, pos, held) ==
  LET inner == IF level = depth THEN OfLeaf("A", pos[depth + 1])
               ELSE OfContainer(level + 1, depth, pos, held)
  IN [id |-> IF level = 0 THEN "root" ELSE GroupName(level),
      children |-> IF level = 0 THEN <<inner, OfLeaf("B", Pt(Px(300), Px(0)))>>
                   ELSE <<inner>>,
      edges |-> IF level \in held THEN <<OfElkEdge(level)>> ELSE <<>>,
      ports |-> <<>>, direction |-> Undefined, isLeaf |-> FALSE,
      x |-> IF level = 0 THEN 0 ELSE pos[level].x,
      y |-> IF level = 0 THEN 0 ELSE pos[level].y,
      width |-> Px(400), height |-> Px(400)]

RECURSIVE OfForest(_, _)
OfForest(level, depth) ==
  IF level > depth THEN <<>>
  ELSE <<LyGroup(GroupName(level), IF level = depth THEN <<"A">> ELSE <<>>,
                 OfForest(level + 1, depth), Undefined)>>

InitOffsets ==
  /\ pc = "solved"
  /\ \E depth \in 0..OfMaxDepth :
     \E pos \in [1..(depth + 1) -> OfLocalPool] :
     \E held \in SUBSET (0..depth) :
       /\ elk = OfContainer(0, depth, pos, held)
          @@ [hierarchyHandling |-> "INCLUDE_CHILDREN"]
       /\ graph = [direction |-> "TD", nodes |-> <<"A", "B">>,
                   edges |-> [k \in 1..(depth + 1) |->
                                [source |-> "A", target |-> "B",
                                 label |-> Undefined, style |-> "solid"]],
                   subgraphs |-> OfForest(1, depth)]
  /\ opts = DEFAULTS
  /\ posNodes = <<>> /\ posEdges = <<>> /\ posGroups = <<>>
  /\ pre = NoPre /\ info = NoInfo /\ canvas = NoCanvas
  /\ runtime = NoRuntime /\ wire = NoResult /\ answer = NoResult
  /\ returned = NoResult
  /\ globals = SettledGlobals

NextOffsets == Extract

SpecOffsets == InitOffsets /\ [][NextOffsets]_vars

\* The container at the level of the solved chain, and the number of groups.
RECURSIVE ElkAt(_)
ElkAt(level) == IF level = 0 THEN elk ELSE ElkAt(level - 1).children[1]

RECURSIVE ChainDepth(_)
ChainDepth(node) == IF node.isLeaf THEN 0 ELSE 1 + ChainDepth(node.children[1])

\* The sum of the local coordinates of the containers at levels 1..level.
RECURSIVE SumOfLocals(_)
SumOfLocals(level) ==
  IF level = 0 THEN Pt(0, 0)
  ELSE Pt(SumOfLocals(level - 1).x + ElkAt(level).x,
          SumOfLocals(level - 1).y + ElkAt(level).y)

\* The extracted group at the level (1 is the outermost).
RECURSIVE GroupAt(_)
GroupAt(level) ==
  IF level = 1 THEN posGroups[1] ELSE GroupAt(level - 1).children[1]

\* C25: the absolute position of every extracted node and group is the sum
\* of the local coordinates of it and of all its ancestors, and every point
\* of an edge segment is the solver's point translated by the absolute
\* position of the container that holds the solver edge.
C25_OffsetsAccumulate ==
  Extracted =>
    LET depth == ChainDepth(elk) - 1
        a == NodeById(posNodes, "A")
    IN /\ Pt(a.x, a.y) = SumOfLocals(depth + 1)
       /\ \A l \in 1..depth :
            /\ GroupAt(l).id = GroupName(l)
            /\ Pt(GroupAt(l).x, GroupAt(l).y) = SumOfLocals(l)
       /\ \A l \in 0..depth :
            Len(ElkAt(l).edges) > 0 =>
              /\ l \in DOMAIN info.segs.seg
              /\ info.segs.seg[l].external.points
                   = SectionPoints(OfElkEdge(l), SumOfLocals(l).x, SumOfLocals(l).y)

\* Two groups deep, each container and the node away from its parent's
\* origin, and an edge held by the innermost group.
C25_Witness ==
  /\ Extracted
  /\ ChainDepth(elk) - 1 = 2
  /\ \A l \in 1..3 : ElkAt(l).x # 0 /\ ElkAt(l).y # 0
  /\ ElkAt(1).x # ElkAt(2).x
  /\ Len(ElkAt(2).edges) > 0
  /\ info.segs.seg[2].external.points[1]
       = Pt(Px(1) + ElkAt(1).x + ElkAt(2).x, Px(2) + ElkAt(1).y + ElkAt(2).y)
  /\ NodeById(posNodes, "A").x = ElkAt(1).x + ElkAt(2).x + ElkAt(3).x

(***************************************************************************)
(* SolverAdapter: ensureElk and elkLayoutSync, with the patches they put   *)
(* on the process.  globals.setTimeout counts the interceptors wrapped     *)
(* around the original function; globals.self is the value of              *)
(* globalThis.self ("absent" when there is no such property);              *)
(* globals.elk and globals.rawWorker tell whether the module's singleton   *)
(* and its cached worker are set; globals.onmessage is the handler on the  *)
(* worker.  The constructor of the solver and the callbacks it queues are  *)
(* foreign code that returns or throws.                                    *)
(***************************************************************************)
ElMaxCalls == 3

ElConstructions == {"ok", "constructorThrows", "flushThrows"}

ElAnswers ==
  {NoAnswer, ErrorAnswer, DataAnswer([id |-> "root"]), DataAnswer([id |-> "other"])}

\* ensureElk: [threw, globals].
EnsureElk(g, construction) ==
  IF g.elk THEN [threw |-> FALSE, globals |-> g]
  ELSE LET origSetTimeout == g.setTimeout
           hadSelf == g.self # "absent"
           origSelf == g.self
           patched == [g EXCEPT !.setTimeout = origSetTimeout + 1,
                                !.self = IF hadSelf /\ ~g.document THEN "absent" ELSE @]
       IN IF construction = "constructorThrows"
          THEN [threw |-> TRUE, globals |-> patched]
          ELSE LET restored == [patched EXCEPT !.elk = TRUE,
                                               !.self = IF hadSelf THEN origSelf ELSE @,
                                               !.setTimeout = origSetTimeout]
               IN IF construction = "flushThrows"
                  THEN [threw |-> TRUE, globals |-> restored]
                  ELSE [threw |-> FALSE,
                        globals |-> [restored EXCEPT !.rawWorker = TRUE,
                                                     !.onmessage = "original"]]

\* elkLayoutSync as a whole: [out, globals, during], during being the handler
\* on the worker while the dispatcher ran ("none" when it did not run).
ElkLayoutSyncCall(g, construction, reply) ==
  LET ensured == EnsureElk(g, construction)
  IN IF ensured.threw
     THEN [out |-> [threw |-> TRUE, message |-> construction],
           globals |-> ensured.globals, during |-> "none"]
     ELSE IF ~ensured.globals.rawWorker
     THEN [out |-> [threw |-> TRUE, message |-> "TypeError"],
           globals |-> ensured.globals, during |-> "none"]
     ELSE LET origOnmessage == ensured.globals.onmessage
              intercepted == [ensured.globals EXCEPT !.onmessage = "interceptor"]
              received == OnMessage(reply)
          IN [out |-> ElkLayoutSyncReturn(received),
              globals |-> [intercepted EXCEPT !.onmessage = origOnmessage],
              during |-> intercepted.onmessage]

(***************************************************************************)
(* Specification of the solver adapter: up to ElMaxCalls calls of          *)
(* elkLayoutSync in a fresh process with or without globalThis.self and    *)
(* document.                                                               *)
(***************************************************************************)
InitAdapter ==
  /\ pc = "idle"
  /\ \E self \in {"absent", "globalThis"} : \E document \in BOOLEAN :
       /\ globals = [setTimeout |-> 0, self |-> self, document |-> document,
                     elk |-> FALSE, rawWorker |-> FALSE, onmessage |-> "none"]
       /\ pre = [nodes |-> <<>>, edges |-> <<>>, self |-> self]
  /\ info = [pass |-> "adapter", calls |-> 0, during |-> "none"]
  /\ graph = EmptyGraph("TD")
  /\ elk = NoElk
  /\ opts = DEFAULTS
  /\ posNodes = <<>> /\ posEdges = <<>> /\ posGroups = <<>>
  /\ canvas = NoCanvas
  /\ runtime = NoRuntime /\ wire = NoResult /\ answer = NoResult
  /\ returned = NoResult

\* One call of elkLayoutSync, from entry to return or throw.
LayoutCall ==
  /\ pc = "idle"
  /\ info.calls < ElMaxCalls
  /\ \E construction \in ElConstructions : \E reply \in ElAnswers :
       LET call == ElkLayoutSyncCall(globals, construction, reply)
       IN /\ globals' = call.globals
          /\ returned' = call.out
          /\ info' = [pass |-> "adapter", calls |-> info.calls + 1,
                      during |-> call.during]
  /\ UNCHANGED <<pc, graph, opts, elk, posNodes, posEdges, posGroups, pre, canvas,
                 runtime, wire, answer>>

NextAdapter == LayoutCall

SpecAdapter == InitAdapter /\ [][NextAdapter]_vars

\* C26: every temporary patch is undone on every exit path: after a call of
\* elkLayoutSync has returned or thrown, the worker's handler is the original
\* one, and globalThis.setTimeout and globalThis.self are as they were before
\* the one-time construction, whether it finished or threw.
C26_PatchesUndone ==
  (info.pass = "adapter" /\ info.calls > 0) =>
    /\ globals.onmessage # "interceptor"
    /\ globals.setTimeout = 0
    /\ globals.self = pre.self

(***************************************************************************)
(* Claims about the fallback reason of the contract resolution.            *)
(***************************************************************************)

\* C27: in every result of resolveTypesContractPayload and of the two
\* normalize...WithRustFallback, fallbackReason is present exactly when the
\* Rust path was enabled and the engine is ts; with the Rust path disabled
\* the runtime is never invoked and the result is engine ts, the caller's
\* input, and no fallbackReason.
C27_ReasonIffFallback ==
  /\ pc = "normalized" =>
       /\ returned.fallbackReason # JUndefined
            <=> (IsRustEnabled(opts) /\ returned.engine = "ts")
       /\ ~IsRustEnabled(opts) =>
            /\ answer = NoResult /\ wire = NoResult
            /\ returned.engine = "ts" /\ returned.graph = graph
  /\ pc = "resolved" =>
       (answer.fallbackReason # JUndefined <=> answer.engine = "ts")
  /\ pc = "payload" =>
       /\ answer.fallbackReason # JUndefined
            <=> (IsRustEnabled(opts) /\ answer.engine = "ts")
       /\ ~IsRustEnabled(opts) =>
            /\ ~info.invoked
            /\ answer.engine = "ts" /\ answer.payload = wire.value

\* The Rust path enabled, a runtime that throws: the call fell back to ts
\* with the reason of the failure.
C27_Witness ==
  /\ pc = "normalized"
  /\ IsRustEnabled(opts) /\ runtime.kind = "throws"
  /\ answer # NoResult
  /\ returned.engine = "ts"
  /\ returned.fallbackReason = InitFailed("boom")

(***************************************************************************)
(* Specification of the layer aligner on a diagram with a group: up to     *)
(* AdMaxNodes unconnected nodes staggered along the flow in steps of 12    *)
(* px, the first of them alone in a group whose box is the node's box plus *)
(* the group padding (16 px, 44 px at the top).                            *)
(***************************************************************************)
EnFlowPool == {Px(0), Px(12), Px(24), Px(36)}

EnGroup(n) ==
  [id |-> "G1", x |-> n.x - GroupPadding.left, y |-> n.y - GroupPadding.top,
   width |-> GroupPadding.left + n.width + GroupPadding.right,
   height |-> GroupPadding.top + n.height + GroupPadding.bottom,
   children |-> <<>>]

InitEnclose ==
  /\ pc = "align"
  /\ \E direction \in {"TD", "LR"} :
     \E n \in 2..AdMaxNodes :
     \E pos \in [1..n -> EnFlowPool] :
       LET ns == [i \in 1..n |-> AlNode(direction, i, pos[i])]
       IN /\ graph = EmptyGraph(direction)
          /\ posNodes = ns
          /\ posGroups = <<EnGroup(ns[1])>>
  /\ posEdges = <<>>
  /\ elk = NoElk
  /\ opts = DEFAULTS
  /\ pre = NoPre /\ info = NoInfo /\ canvas = NoCanvas
  /\ runtime = NoRuntime /\ wire = NoResult /\ answer = NoResult
  /\ returned = NoResult
  /\ globals = SettledGlobals

SpecEnclose == InitEnclose /\ [][NextAlign]_vars

\* The box of the node lies inside the box of the group.
BoxInside(n, box) ==
  /\ n.x >= box.x /\ n.x + n.width <= box.x + box.width
  /\ n.y >= box.y /\ n.y + n.height <= box.y + box.height

\* The pass changed nothing of a node but its flow coordinate, and that only
\* in layers of more than one member.
OnlyFlowOfSharedLayers ==
  \A i \in 1..Len(pre.nodes) :
    /\ posNodes[i].id = pre.nodes[i].id
    /\ CrossPos(graph.direction, posNodes[i]) = CrossPos(graph.direction, pre.nodes[i])
    /\ posNodes[i].width = pre.nodes[i].width
    /\ posNodes[i].height = pre.nodes[i].height
    /\ Len(info.layers[LayerOf(i)]) = 1 => posNodes[i] = pre.nodes[i]

\* C29: after alignment every node that lay inside the box of its group
\* still lies inside it; the pass changes only the flow coordinate of nodes
\* in layers of more than one member, never the other coordinate or a size.
C29_NodesStayInGroups ==
  Aligned =>
    /\ OnlyFlowOfSharedLayers
    /\ \A i \in 1..Len(pre.nodes) :
         LET all == AllGroups(posGroups)
         IN \A j \in 1..Len(all) :
              BoxInside(pre.nodes[i], all[j]) => BoxInside(posNodes[i], all[j])

(***************************************************************************)
(* Claims about the identifiers of the solver input tree.                  *)
(***************************************************************************)

\* No two entries of the sequence are equal.
Distinct(ids) == \A i, j \in 1..Len(ids) : ids[i] = ids[j] => i = j

\* C30: in the solver input tree no two solver edges have the same id and no
\* two boundary ports have the same id.
C30_UniqueIds ==
  pc = "translated" =>
    /\ Distinct([k \in 1..Len(ElkEdgesOf(elk)) |-> ElkEdgesOf(elk)[k].edge.id])
    /\ Distinct(ElkPortsOf(elk))

====
